---- MODULE Spec2Model ----
(***************************************************************************)
(* A model of the financial-app backend's domain logic:                    *)
(*   - routes/banking.py : categorize_transaction, analyze_spending        *)
(*   - trading.py        : the totals and allocation of get_portfolio      *)
(*   - routes/blockchain.py : get_wallet_assets and the explorer requests  *)
(*   - routes/news.py    : get_source_credibility, get_news                *)
(*   - routes/ai.py      : get_system_prompt, chat, clear_conversation     *)
(* Each part has its own specification; the variables of the other parts   *)
(* stay idle in it.                                                        *)
(*                                                                         *)
(* Representation.                                                         *)
(*   - A Python str is a TLA+ string; lower(), `in` (substring) and        *)
(*     concatenation are computed character by character.                  *)
(*   - A Python dict is a function whose DOMAIN is the set of keys that    *)
(*     are present; d.get(k, default) is Get(d, k, default).               *)
(*   - Python's None is the reserved string PyNone, which no input string  *)
(*     of the model equals (inputs are built from letters only); where the *)
(*     other values are dicts it is the record NoneObject.                 *)
(*   - Money is an integer number of mills (1/1000 of a currency unit) in  *)
(*     both parts; a reported amount (2 decimals) is a number of cents and *)
(*     a reported percentage (1 decimal) a number of tenths of a percent,  *)
(*     so that round(x, 2) and round(x, 1) are real roundings.             *)
(*   - round(x, n) of a float: the code rounds the binary value of x. When *)
(*     the exact quotient is not halfway between two neighbours the result *)
(*     is the nearest neighbour. At an exact decimal tie the binary value  *)
(*     lies above, below or on the tie depending on the operands (for      *)
(*     instance round(0.009/0.048*100, 1) = 18.7 but                       *)
(*     round(0.09/0.48*100, 1) = 18.8), so a tie is modelled as a choice   *)
(*     between the two neighbours.                                         *)
(***************************************************************************)
EXTENDS Integers, Sequences, FiniteSets, TLC

VARIABLES
    transaction,          \* banking.py: the argument of categorize_transaction
    categorized,          \* the outcome of categorize_transaction(transaction)
    recategorized,        \* the outcome of categorize_transaction on that result
    transactions,         \* analyze_spending: the transactions iterated so far
    total_spent,          \* analyze_spending: accumulator (line 71)
    essential_spent,      \* analyze_spending: accumulator (line 72)
    non_essential_spent,  \* analyze_spending: accumulator (line 73)
    category_breakdown,   \* analyze_spending: dict in insertion order (line 74)
    analysis,             \* analyze_spending: the returned dict
    holdings,             \* trading.py: the holdings get_portfolio summarises
    portfolio,            \* trading.py: the outcome of get_portfolio
    address,              \* blockchain.py: the <address> of the wallet route
    eth_reply,            \* what the Etherscan balance request comes back with
    polygon_reply,        \* what the Polygonscan balance request comes back with
    token_reply,          \* what the Etherscan token-transfer request comes back with
    wallet_pc,            \* get_wallet_assets: the statement to execute next
    calls,                \* the collaborators get_wallet_assets has called, in order
    eth_balance,          \* get_wallet_assets: local (line 144)
    polygon_balance,      \* get_wallet_assets: local (line 145)
    tokens,               \* get_wallet_assets: local (line 146)
    defi_positions,       \* get_wallet_assets: local (line 147)
    wallet,               \* the response of get_wallet_assets
    transfers_reply,      \* get_eth_tokens: what the token-transfer request comes back with
    eth_tokens,           \* the outcome of get_eth_tokens
    source,               \* news.py: the argument of get_source_credibility
    credibility,          \* the outcome of get_source_credibility(source)
    finnhub_key,          \* news.py: whether FINNHUB_API_KEY is set
    news_args,            \* get_news: the query parameters of the request
    news_feed,            \* get_news: what the Finnhub request comes back with
    news,                 \* the response of get_news
    financial_context,    \* ai.py: the argument of get_system_prompt
    system_prompt,        \* the outcome of get_system_prompt(financial_context)
    openai_key,           \* ai.py: whether OPENAI_API_KEY is set
    conversations,        \* ai.py: the module-level dict (line 13)
    chats,                \* the chat requests: position, locals and response of each
    clears,               \* the clear_conversation requests, likewise
    arrivals,             \* history: the chat requests in the order they were received
    stored_before         \* history: the conversations before the first request

vars == << transaction, categorized, recategorized, transactions, total_spent,
           essential_spent, non_essential_spent, category_breakdown, analysis,
           holdings, portfolio,
           address, eth_reply, polygon_reply, token_reply, wallet_pc, calls,
           eth_balance, polygon_balance, tokens, defi_positions, wallet,
           transfers_reply, eth_tokens,
           source, credibility, finnhub_key, news_args, news_feed, news,
           financial_context, system_prompt,
           openai_key, conversations, chats, clears, arrivals, stored_before >>

classifyVars == << transaction, categorized, recategorized >>
analyzeVars == << transactions, total_spent, essential_spent,
                  non_essential_spent, category_breakdown, analysis >>
portfolioVars == << holdings, portfolio >>
walletVars == << address, eth_reply, polygon_reply, token_reply, wallet_pc, calls,
                eth_balance, polygon_balance, tokens, defi_positions, wallet >>

\* banking.py and trading.py on one side, the routes of routes/ on the other
domainVars == << classifyVars, analyzeVars, portfolioVars >>
tokenVars == << transfers_reply, eth_tokens >>
blockchainVars == << walletVars, tokenVars >>
credibilityVars == << source, credibility >>
newsVars == << finnhub_key, news_args, news_feed, news >>
promptVars == << financial_context, system_prompt >>
chatVars == << openai_key, conversations, chats, clears, arrivals,
              stored_before >>
aiVars == << promptVars, chatVars >>
routeVars == << blockchainVars, credibilityVars, newsVars, aiVars >>

-----------------------------------------------------------------------------
(* Python values *)

PyNone == "<None>"

\* None where the other values are dicts
NoneObject == [none |-> TRUE]

NotCalled == [status |-> "not-called"]

Returned(v) == [status |-> "returned", value |-> v]

Raised(e) == [status |-> "raised", error |-> e]

Get(d, k, default) == IF k \in DOMAIN d THEN d[k] ELSE default

Abs(x) == IF x < 0 THEN -x ELSE x

UpperCase == <<"A", "B", "C", "D", "E", "F", "G", "H", "I", "J", "K", "L", "M",
               "N", "O", "P", "Q", "R", "S", "T", "U", "V", "W", "X", "Y", "Z">>

LowerCase == <<"a", "b", "c", "d", "e", "f", "g", "h", "i", "j", "k", "l", "m",
               "n", "o", "p", "q", "r", "s", "t", "u", "v", "w", "x", "y", "z">>

\* str.lower() on one character
LowerChar(c) ==
    IF \E i \in 1..Len(UpperCase) : UpperCase[i] = c
    THEN LowerCase[CHOOSE i \in 1..Len(UpperCase) : UpperCase[i] = c]
    ELSE c

\* str.lower()
RECURSIVE Lower(_)
Lower(s) ==
    IF s = "" THEN ""
    ELSE LowerChar(SubSeq(s, 1, 1)) \o Lower(SubSeq(s, 2, Len(s)))

\* Python's `k in s` for two strings: k occurs in s as a contiguous substring
StrIn(k, s) ==
    \E i \in 1..(Len(s) - Len(k) + 1) : SubSeq(s, i, i + Len(k) - 1) = k

-----------------------------------------------------------------------------
(* routes/banking.py: categorize_transaction *)

ESSENTIAL_CATEGORIES ==
    << "groceries", "supermarket", "grocery",
       "rent", "mortgage", "housing",
       "utilities", "electric", "gas", "water", "internet",
       "insurance", "health insurance", "car insurance",
       "healthcare", "medical", "pharmacy", "doctor",
       "transportation", "fuel", "gas station", "public transit",
       "childcare", "education" >>

NON_ESSENTIAL_CATEGORIES ==
    << "dining", "restaurant", "fast food", "coffee",
       "entertainment", "movies", "streaming", "gaming",
       "shopping", "clothing", "electronics", "amazon",
       "subscriptions", "netflix", "spotify",
       "travel", "vacation", "hotel", "airline",
       "personal care", "salon", "spa" >>

\* for keyword in ESSENTIAL_CATEGORIES, from keyword number i on: the first
\* keyword found in name or in category ends the loop with TRUE
RECURSIVE KeywordLoop(_, _, _)
KeywordLoop(name, category, i) ==
    IF i > Len(ESSENTIAL_CATEGORIES) THEN FALSE
    ELSE IF StrIn(ESSENTIAL_CATEGORIES[i], name)
            \/ StrIn(ESSENTIAL_CATEGORIES[i], category)
         THEN TRUE
         ELSE KeywordLoop(name, category, i + 1)

\* {**transaction, 'is_essential': ..., 'category_type': ...}
Tagged(t, is_essential, category_type) ==
    [k \in DOMAIN t \cup {"is_essential", "category_type"} |->
        IF k = "is_essential" THEN is_essential
        ELSE IF k = "category_type" THEN category_type
        ELSE t[k]]

\* A slip that matches the keywords against the name only.
categorize_name_only(t) ==
    LET n == Get(t, "name", "")
        c == Get(t, "category", "")
    IN  IF n = PyNone \/ c = PyNone THEN Raised("AttributeError")
        ELSE LET is_essential == KeywordLoop(Lower(n), "", 1)
             IN  Returned(Tagged(t, is_essential,
                     IF is_essential THEN "essential" ELSE "non-essential"))

\* A slip that stores the derived label under the key 'category'.
categorize_overwrites_category(t) ==
    LET n == Get(t, "name", "")
        c == Get(t, "category", "")
    IN  IF n = PyNone \/ c = PyNone THEN Raised("AttributeError")
        ELSE LET is_essential == KeywordLoop(Lower(n), Lower(c), 1)
                 label == IF is_essential THEN "essential" ELSE "non-essential"
             IN  Returned([k \in DOMAIN t \cup {"is_essential", "category_type",
                                              "category"} |->
                     IF k = "is_essential" THEN is_essential
                     ELSE IF k \in {"category", "category_type"} THEN label
                     ELSE t[k]])

\* transaction.get('name', '').lower() raises AttributeError when the key is
\* present with the value None: get returns None, which has no lower().
categorize_transaction(t) ==
    LET n == Get(t, "name", "")
        c == Get(t, "category", "")
    IN  IF n = PyNone \/ c = PyNone THEN Raised("AttributeError")
        ELSE LET name == Lower(n)
                 category == Lower(c)
                 is_essential == KeywordLoop(name, category, 1)
                 category_type ==
                     IF is_essential THEN "essential" ELSE "non-essential"
             IN  Returned(Tagged(t, is_essential, category_type))

\* The states of the classifier: from a transaction to its classification, and
\* from a classified transaction to its classification.
Categorize ==
    /\ categorized = NotCalled
    /\ categorized' = categorize_transaction(transaction)
    /\ UNCHANGED << transaction, recategorized >>
    /\ UNCHANGED << analyzeVars, portfolioVars, routeVars >>

Recategorize ==
    /\ categorized.status = "returned"
    /\ recategorized = NotCalled
    /\ recategorized' = categorize_transaction(categorized.value)
    /\ UNCHANGED << transaction, categorized >>
    /\ UNCHANGED << analyzeVars, portfolioVars, routeVars >>

-----------------------------------------------------------------------------
(* Inputs of the classifier *)

\* The longest name or category, in fragments.
MaxFragments == 2

\* Pieces of merchant names and categories: "as" + "Gas" and "REN" + "T"
\* contain a keyword in some letter case, "as" + "T" and "T" + "REN" do not.
Fragments == {"Gas", "as", "REN", "T"}

RECURSIVE StringsUpTo(_)
StringsUpTo(n) ==
    IF n = 0 THEN {""}
    ELSE LET shorter == StringsUpTo(n - 1)
         IN  shorter \cup {s \o f : s \in shorter, f \in Fragments}

Strings == StringsUpTo(MaxFragments)

\* A field is absent, None, or a string.
Absent == "<absent>"

FieldInputs == Strings \cup {PyNone, Absent}

\* The fields of a record besides name and category: none, an amount, or an
\* amount with the tags of an earlier classification (right or wrong).
ExtraFields ==
    { <<>>,
      [amount |-> -1500],
      [amount |-> 1500, is_essential |-> TRUE, category_type |-> "essential"],
      [amount |-> 1500, is_essential |-> FALSE,
       category_type |-> "non-essential"] }

Record(name, category, extra) ==
    LET keys == DOMAIN extra
                \cup (IF name = Absent THEN {} ELSE {"name"})
                \cup (IF category = Absent THEN {} ELSE {"category"})
    IN  [k \in keys |-> IF k = "name" THEN name
                        ELSE IF k = "category" THEN category
                        ELSE extra[k]]

RecordInputs ==
    {Record(n, c, x) : n \in FieldInputs, c \in FieldInputs, x \in ExtraFields}

IdleWallet ==
    /\ address = ""
    /\ eth_reply = NoneObject
    /\ polygon_reply = NoneObject
    /\ token_reply = NoneObject
    /\ wallet_pc = "done"
    /\ calls = <<>>
    /\ eth_balance = NoneObject
    /\ polygon_balance = NoneObject
    /\ tokens = <<>>
    /\ defi_positions = <<>>
    /\ wallet = NotCalled

IdleTokens ==
    /\ transfers_reply = NoneObject
    /\ eth_tokens = NotCalled

IdleBlockchain == IdleWallet /\ IdleTokens

IdleCredibility ==
    /\ source = ""
    /\ credibility = NotCalled

IdleNews ==
    /\ finnhub_key = FALSE
    /\ news_args = <<>>
    /\ news_feed = NoneObject
    /\ news = NotCalled

IdlePrompt ==
    /\ financial_context = NoneObject
    /\ system_prompt = NotCalled

IdleChat ==
    /\ openai_key = FALSE
    /\ conversations = <<>>
    /\ chats = <<>>
    /\ clears = <<>>
    /\ arrivals = <<>>
    /\ stored_before = <<>>

IdleAi == IdlePrompt /\ IdleChat

IdleRoutes == IdleBlockchain /\ IdleCredibility /\ IdleNews /\ IdleAi

IdleAnalyze ==
    /\ transactions = <<>>
    /\ total_spent = 0
    /\ essential_spent = 0
    /\ non_essential_spent = 0
    /\ category_breakdown = <<>>
    /\ analysis = NotCalled

IdlePortfolio ==
    /\ holdings = <<>>
    /\ portfolio = NotCalled

IdleClassify ==
    /\ transaction = <<>>
    /\ categorized = NotCalled
    /\ recategorized = NotCalled

InitClassify ==
    /\ transaction \in RecordInputs
    /\ categorized = NotCalled
    /\ recategorized = NotCalled
    /\ IdleAnalyze
    /\ IdlePortfolio
    /\ IdleRoutes

NextClassify == Categorize \/ Recategorize

SpecClassify == InitClassify /\ [][NextClassify]_vars

-----------------------------------------------------------------------------
(* routes/banking.py: analyze_spending *)

\* The quotient num * 10^digits / den for den > 0 by long division, one
\* decimal digit at a time: q is its floor and r the remainder, 0 <= r < den.
RECURSIVE LongDivision(_, _, _)
LongDivision(num, den, digits) ==
    IF digits = 0 THEN [q |-> num \div den, r |-> num % den]
    ELSE LET d == LongDivision(num, den, digits - 1)
         IN  [q |-> d.q * 10 + (d.r * 10) \div den, r |-> (d.r * 10) % den]

\* round(num / den, digits) for den > 0, as a whole number of units of
\* 10^-digits: the nearest unit, and either neighbour when num / den lies
\* exactly halfway between two units.
Round(num, den, digits) ==
    LET d == LongDivision(num, den, digits)
    IN  IF 2 * d.r < den THEN {d.q}
        ELSE IF 2 * d.r > den THEN {d.q + 1}
        ELSE {d.q, d.q + 1}

\* round(x, 2) of an amount x of mills, in cents
Round2(mills) == Round(mills, 10, 0)

\* A slip that leaves the sign of the amount in.
SignedAmount(tx) == Get(tx, "amount", 0)

\* amount = abs(tx.get('amount', 0))
Magnitude(tx) == Abs(Get(tx, "amount", 0))

\* A dict in insertion order is a sequence of [k, v] items with distinct keys.
Keys(d) == {d[i].k : i \in 1..Len(d)}

\* A slip that stores the amount instead of adding it.
StoreAmount(d, cat, amount) ==
    IF cat \notin Keys(d) THEN Append(d, [k |-> cat, v |-> amount])
    ELSE [i \in 1..Len(d) |->
             IF d[i].k = cat THEN [k |-> cat, v |-> amount] ELSE d[i]]

\* if cat not in category_breakdown: category_breakdown[cat] = 0
\* category_breakdown[cat] += amount
AddAmount(d, cat, amount) ==
    IF cat \notin Keys(d) THEN Append(d, [k |-> cat, v |-> amount])
    ELSE [i \in 1..Len(d) |->
             IF d[i].k = cat THEN [k |-> cat, v |-> d[i].v + amount] ELSE d[i]]

\* A slip that sorts ascending and reverses the result, which also reverses
\* the items of equal value.
InsertTiesFirst(out, x) ==
    LET p == Cardinality({i \in 1..Len(out) : out[i].v > x.v})
    IN  SubSeq(out, 1, p) \o <<x>> \o SubSeq(out, p + 1, Len(out))

\* One item placed into a sequence sorted by descending value: after every
\* item of greater or equal value.
InsertDescending(out, x) ==
    LET p == Cardinality({i \in 1..Len(out) : out[i].v >= x.v})
    IN  SubSeq(out, 1, p) \o <<x>> \o SubSeq(out, p + 1, Len(out))

\* sorted(category_breakdown.items(), key=lambda x: x[1], reverse=True):
\* a stable sort, so the items of equal value keep their order in the dict.
RECURSIVE SortedDescending(_)
SortedDescending(items) ==
    IF items = <<>> THEN <<>>
    ELSE InsertDescending(SortedDescending(SubSeq(items, 1, Len(items) - 1)),
                          items[Len(items)])

\* {k: round(v, 2) for k, v in ...}: the outcomes of rounding every value
RECURSIVE RoundedItems(_)
RoundedItems(items) ==
    IF items = <<>> THEN {<<>>}
    ELSE {<<[k |-> items[1].k, v |-> c]>> \o rest :
              c \in Round2(items[1].v), rest \in RoundedItems(Tail(items))}

\* A slip that cuts the decimals off (int) instead of rounding.
PercentTruncated(part, total) ==
    IF total > 0 THEN {(part * 1000) \div total} ELSE {0}

\* round((part / total_spent * 100) if total_spent > 0 else 0, 1), in tenths
\* of a percent
Percent(part, total) ==
    IF total > 0 THEN Round(part, total, 3) ELSE {0}

\* The most transactions of one call.
MaxTransactions == 3

\* One pass of `for tx in transactions` (lines 76-89)
LoopBody(tx) ==
    LET amount == Magnitude(tx)
        cat == Get(tx, "category", "Other")
    IN  /\ analysis = NotCalled
        /\ Len(transactions) < MaxTransactions
        /\ transactions' = Append(transactions, tx)
        /\ total_spent' = total_spent + amount
        /\ IF Get(tx, "is_essential", FALSE)
           THEN /\ essential_spent' = essential_spent + amount
                /\ UNCHANGED non_essential_spent
           ELSE /\ non_essential_spent' = non_essential_spent + amount
                /\ UNCHANGED essential_spent
        /\ category_breakdown' = AddAmount(category_breakdown, cat, amount)
        /\ UNCHANGED analysis
        /\ UNCHANGED << classifyVars, portfolioVars, routeVars >>

\* The return statement (lines 91-98)
Return ==
    /\ analysis = NotCalled
    /\ \E t \in Round2(total_spent), e \in Round2(essential_spent),
          n \in Round2(non_essential_spent),
          ep \in Percent(essential_spent, total_spent),
          np \in Percent(non_essential_spent, total_spent),
          cb \in RoundedItems(SortedDescending(category_breakdown)) :
            analysis' = Returned([total_spent |-> t,
                                  essential_spent |-> e,
                                  non_essential_spent |-> n,
                                  essential_percent |-> ep,
                                  non_essential_percent |-> np,
                                  category_breakdown |-> cb])
    /\ UNCHANGED << transactions, total_spent, essential_spent,
                    non_essential_spent, category_breakdown >>
    /\ UNCHANGED << classifyVars, portfolioVars, routeVars >>

\* Amounts, in mills: 0.009 and 0.039 make 18.75 % and 81.25 % of their sum,
\* 0.004 is less than half a cent, and a negative amount is a refund.
Amounts == {-39, 4, 9}

Categories == {"Groceries", "Dining"}

\* dict union of two dicts with different keys
Merge(f, g) ==
    [k \in DOMAIN f \cup DOMAIN g |-> IF k \in DOMAIN f THEN f[k] ELSE g[k]]

\* A transaction of analyze_spending: each of amount, is_essential and
\* category is present or absent; the tag, when present, is true, or false on
\* an amount of 0.004.
TransactionInputs ==
    { Merge(a, Merge(e, c)) :
        a \in {<<>>} \cup {[amount |-> x] : x \in Amounts},
        e \in {<<>>, [is_essential |-> TRUE]},
        c \in {<<>>} \cup {[category |-> x] : x \in Categories} }
    \cup
    { Merge([amount |-> 4, is_essential |-> FALSE], c) :
        c \in {<<>>} \cup {[category |-> x] : x \in Categories} }

InitAnalyze ==
    /\ IdleAnalyze
    /\ IdleClassify
    /\ IdlePortfolio
    /\ IdleRoutes

NextAnalyze ==
    \/ \E tx \in TransactionInputs : LoopBody(tx)
    \/ Return

SpecAnalyze == InitAnalyze /\ [][NextAnalyze]_vars

-----------------------------------------------------------------------------
(* trading.py: get_portfolio *)

\* One holding of the list of lines 53-120. Amounts are in mills and
\* gain_loss_percent is in hundredths of a percent.
Holding(symbol, quantity, avg_cost, current_price, market_value, gain_loss, gain_loss_percent, type) ==
    [symbol |-> symbol, quantity |-> quantity, avg_cost |-> avg_cost,
     current_price |-> current_price, market_value |-> market_value,
     gain_loss |-> gain_loss, gain_loss_percent |-> gain_loss_percent,
     type |-> type]

\* The list with one digit of AAPL's market_value mistyped (2788.88).
MockHoldingsMistyped ==
    << Holding("AAPL", 15, 178500, 185920, 2788880, 111300, 416, "stock"),
       Holding("MSFT", 10, 380000, 415500, 4155000, 355000, 934, "stock"),
       Holding("GOOGL", 8, 140250, 152300, 1218400, 96400, 859, "stock"),
       Holding("SPY", 20, 450000, 478250, 9565000, 565000, 628, "etf"),
       Holding("QQQ", 12, 390000, 425800, 5109600, 429600, 918, "etf"),
       Holding("VTI", 25, 220000, 245300, 6132500, 632500, 1150, "etf") >>

\* holdings = [...] (lines 53-120)
MockHoldings ==
    << Holding("AAPL", 15, 178500, 185920, 2788800, 111300, 416, "stock"),
       Holding("MSFT", 10, 380000, 415500, 4155000, 355000, 934, "stock"),
       Holding("GOOGL", 8, 140250, 152300, 1218400, 96400, 859, "stock"),
       Holding("SPY", 20, 450000, 478250, 9565000, 565000, 628, "etf"),
       Holding("QQQ", 12, 390000, 425800, 5109600, 429600, 918, "etf"),
       Holding("VTI", 25, 220000, 245300, 6132500, 632500, 1150, "etf") >>

\* total_value = sum(h['market_value'] for h in holdings)
RECURSIVE TotalValue(_)
TotalValue(hs) ==
    IF hs = <<>> THEN 0 ELSE hs[1].market_value + TotalValue(Tail(hs))

\* total_cost = sum(h['quantity'] * h['avg_cost'] for h in holdings)
RECURSIVE TotalCost(_)
TotalCost(hs) ==
    IF hs = <<>> THEN 0
    ELSE hs[1].quantity * hs[1].avg_cost + TotalCost(Tail(hs))

\* The loop of lines 128-133: the market value summed per type, as a dict in
\* insertion order.
RECURSIVE Allocation(_)
Allocation(hs) ==
    IF hs = <<>> THEN <<>>
    ELSE LET allocation == Allocation(SubSeq(hs, 1, Len(hs) - 1))
             h == hs[Len(hs)]
         IN  IF h.type \notin Keys(allocation)
             THEN Append(allocation, [k |-> h.type, v |-> h.market_value])
             ELSE [i \in 1..Len(allocation) |->
                      IF allocation[i].k = h.type
                      THEN [k |-> h.type,
                            v |-> allocation[i].v + h.market_value]
                      ELSE allocation[i]]

\* A slip that cuts the decimals off (int) instead of rounding.
ShareTruncated(v, total_value) == {LongDivision(v, total_value, 3).q}

\* round(v / total_value * 100, 1), in tenths of a percent, for total_value > 0
Share(v, total_value) == Round(v, total_value, 3)

\* {k: round(v / total_value * 100, 1) for k, v in allocation.items()}: the
\* outcomes of rounding every share
RECURSIVE AllocationPercent(_, _)
AllocationPercent(allocation, total_value) ==
    IF allocation = <<>> THEN {<<>>}
    ELSE {<<[k |-> allocation[1].k, v |-> c]>> \o rest :
              c \in Share(allocation[1].v, total_value),
              rest \in AllocationPercent(Tail(allocation), total_value)}

\* The outcomes of the handler on a list of holdings whose market values are
\* not negative and whose cost is not negative. The route never passes an empty
\* access_token, so the 400 of lines 46-50 is not an outcome. A division by
\* zero (line 136, then line 148) raises ZeroDivisionError, which nothing in
\* the handler catches.
PortfolioOutcomes(hs) ==
    LET total_value == TotalValue(hs)
        total_cost == TotalCost(hs)
        total_gain == total_value - total_cost
        allocation == Allocation(hs)
    IN  IF allocation # <<>> /\ total_value = 0
        THEN {Raised("ZeroDivisionError")}
        ELSE IF total_cost = 0
        THEN {Raised("ZeroDivisionError")}
        ELSE { Returned([portfolio |->
                            [total_value |-> tv,
                             total_cost |-> tc,
                             total_gain_loss |-> tg,
                             total_gain_loss_percent |-> tgp,
                             day_change |-> 23450,
                             day_change_percent |-> 52,
                             cash_balance |-> 125000],
                         holdings |-> hs,
                         allocation |-> allocation_percent]) :
                   tv \in Round2(total_value), tc \in Round2(total_cost),
                   tg \in Round2(total_gain),
                   tgp \in Round(total_gain, total_cost, 4),
                   allocation_percent \in
                       AllocationPercent(allocation, total_value) }

get_portfolio ==
    /\ portfolio = NotCalled
    /\ portfolio' \in PortfolioOutcomes(holdings)
    /\ UNCHANGED holdings
    /\ UNCHANGED << classifyVars, analyzeVars, routeVars >>

\* The most holdings of a portfolio other than the list of the source.
MaxHoldings == 3

HoldingTypes == {"stock", "etf", "crypto"}

\* Quantities of a position: none, one share, fifteen shares.
Quantities == {0, 1, 15}

\* Prices, in mills: 1.000 and 3.335.
Prices == {1000, 3335}

\* What a position was bought at, in mills: 1.000.
AvgCosts == {1000}

\* A position with its derived fields filled in.
Position(quantity, avg_cost, current_price, type) ==
    LET cost == quantity * avg_cost
        market_value == quantity * current_price
        gain_loss == market_value - cost
    IN  Holding("SYM", quantity, avg_cost, current_price, market_value,
                gain_loss,
                IF cost = 0 THEN 0
                ELSE CHOOSE p \in Round(gain_loss, cost, 4) :
                         \A o \in Round(gain_loss, cost, 4) : p <= o,
                type)

Positions ==
    {Position(q, c, p, ty) :
        q \in Quantities, c \in AvgCosts, p \in Prices, ty \in HoldingTypes}

RECURSIVE PositionLists(_)
PositionLists(n) ==
    IF n = 0 THEN {<<>>}
    ELSE LET shorter == PositionLists(n - 1)
         IN  shorter \cup {Append(hs, h) : hs \in shorter, h \in Positions}

\* The holdings are the list of the source, or what a broker could hold in its
\* place: any list of positions.
InitPortfolio ==
    /\ holdings \in {MockHoldings} \cup PositionLists(MaxHoldings)
    /\ portfolio = NotCalled
    /\ IdleClassify
    /\ IdleAnalyze
    /\ IdleRoutes

NextPortfolio == get_portfolio

SpecPortfolio == InitPortfolio /\ [][NextPortfolio]_vars

IdleDomain == IdleClassify /\ IdleAnalyze /\ IdlePortfolio

-----------------------------------------------------------------------------
(* routes/blockchain.py: the explorer requests *)

Digits == "0123456789"

IsDigit(c) == \E i \in 1..Len(Digits) : SubSeq(Digits, i, i) = c

DigitValue(c) == (CHOOSE i \in 1..Len(Digits) : SubSeq(Digits, i, i) = c) - 1

\* The strings int() is applied to in the model are digit strings or words:
\* int(s) returns for the former and raises ValueError for the latter.
IsInt(s) == Len(s) > 0 /\ \A i \in 1..Len(s) : IsDigit(SubSeq(s, i, i))

RECURSIVE ParseInt(_)
ParseInt(s) ==
    IF s = "" THEN 0
    ELSE 10 * ParseInt(SubSeq(s, 1, Len(s) - 1))
         + DigitValue(SubSeq(s, Len(s), Len(s)))

\* str(n) of a natural number
RECURSIVE IntToStr(_)
IntToStr(n) ==
    IF n < 10 THEN SubSeq(Digits, n + 1, n + 1)
    ELSE IntToStr(n \div 10) \o SubSeq(Digits, (n % 10) + 1, (n % 10) + 1)

\* What requests.get(url, timeout=10) followed by response.json() comes to:
\* one of the two raises, or a parsed JSON document is there.
RequestFailed == [kind |-> "request-failed"]

NotJson == [kind |-> "not-json"]

Json(data) == [kind |-> "json", data |-> data]

\* The body of get_eth_balance and get_polygon_balance, which differ in the
\* url and in the two labels.  The balance is balance_wei / 1e18, kept as the
\* decimal number mantissa * 10^exponent (the float is its nearest double).
\* Every exception is caught and the function then returns None.
native_balance(reply, chain, symbol) ==
    IF reply.kind # "json" THEN NoneObject
    ELSE LET data == reply.data
         IN  IF Get(data, "status", PyNone) = "1"
             THEN IF "result" \in DOMAIN data /\ IsInt(data["result"])
                  THEN LET balance_wei == ParseInt(data["result"])
                       IN  [chain |-> chain,
                            symbol |-> symbol,
                            balance |-> [mantissa |-> balance_wei,
                                         exponent |-> -18],
                            balance_raw |-> IntToStr(balance_wei)]
                  ELSE NoneObject
             ELSE NoneObject

get_eth_balance(reply) == native_balance(reply, "Ethereum", "ETH")

get_polygon_balance(reply) == native_balance(reply, "Polygon", "MATIC")

\* seq[:n] for n >= 0
Prefix(seq, n) == SubSeq(seq, 1, IF Len(seq) < n THEN Len(seq) ELSE n)

ScanLimit == 50

\* The loop of get_eth_tokens over data['result'][:50], from event i on, with
\* the dict `tokens` as the list of its values in insertion order.  The
\* default of tokenDecimal is the number 18, written here as the string
\* int() maps to it.
RECURSIVE TokenLoop(_, _, _)
TokenLoop(result, i, found) ==
    IF i > Len(result) THEN Returned(found)
    ELSE LET tx == result[i]
             token_symbol == Get(tx, "tokenSymbol", "UNKNOWN")
             token_name == Get(tx, "tokenName", "Unknown Token")
             tokenDecimal == Get(tx, "tokenDecimal", "18")
         IN  IF \E j \in 1..Len(found) : found[j].symbol = token_symbol
             THEN TokenLoop(result, i + 1, found)
             ELSE IF ~IsInt(tokenDecimal) THEN Raised("ValueError")
             ELSE TokenLoop(result, i + 1,
                      Append(found,
                             [symbol |-> token_symbol,
                              name |-> token_name,
                              contract |-> Get(tx, "contractAddress", ""),
                              decimals |-> ParseInt(tokenDecimal)]))

\* The same loop without the [:50]
get_eth_tokens_unlimited(reply) ==
    IF reply.kind # "json" THEN <<>>
    ELSE LET data == reply.data
         IN  IF Get(data, "status", PyNone) = "1"
                /\ Get(data, "result", <<>>) # <<>>
             THEN LET loop == TokenLoop(data["result"], 1, <<>>)
                  IN  IF loop.status = "returned" THEN loop.value ELSE <<>>
             ELSE <<>>

\* get_eth_tokens: the list of the tokens found, [] when the request or the
\* loop raises (the except clause falls through to `return []`).
get_eth_tokens(reply) ==
    IF reply.kind # "json" THEN <<>>
    ELSE LET data == reply.data
         IN  IF Get(data, "status", PyNone) = "1"
                /\ Get(data, "result", <<>>) # <<>>
             THEN LET loop == TokenLoop(Prefix(data["result"], ScanLimit),
                                        1, <<>>)
                  IN  IF loop.status = "returned" THEN loop.value ELSE <<>>
             ELSE <<>>

\* get_defi_positions: a placeholder in the source
get_defi_positions == <<>>

-----------------------------------------------------------------------------
(* routes/blockchain.py: get_wallet_assets *)

Response(status, body) == [status |-> status, body |-> body]

\* The check that only the length is looked at
AddressOfLength42(a) == Len(a) = 42

\* The negation of the condition of line 136
ValidAddress(a) == a # "" /\ Len(a) = 42 /\ SubSeq(a, 1, 2) = "0x"

\* Lines 150-154 with the tests on the balance instead of on the dict
NativeBalancesWithFunds(eth, polygon) ==
    (IF eth # NoneObject /\ eth.balance.mantissa # 0 THEN <<eth>> ELSE <<>>)
    \o (IF polygon # NoneObject /\ polygon.balance.mantissa # 0
        THEN <<polygon>> ELSE <<>>)

\* Lines 150-154: a dict the balance functions return has four keys and is
\* truthy, None is not.
NativeBalances(eth, polygon) ==
    (IF eth # NoneObject THEN <<eth>> ELSE <<>>)
    \o (IF polygon # NoneObject THEN <<polygon>> ELSE <<>>)

walletInputs == << address, eth_reply, polygon_reply, token_reply >>

\* Line 136-137
WalletValidate ==
    /\ wallet_pc = "validate"
    /\ IF ValidAddress(address)
       THEN /\ wallet_pc' = "eth"
            /\ UNCHANGED wallet
       ELSE /\ wallet_pc' = "done"
            /\ wallet' = Response(400, [error |-> "Invalid Ethereum address"])
    /\ UNCHANGED << walletInputs, calls, eth_balance, polygon_balance, tokens,
                    defi_positions >>
    /\ UNCHANGED << domainVars, tokenVars, credibilityVars, newsVars, aiVars >>

\* Line 144
WalletEthBalance ==
    /\ wallet_pc = "eth"
    /\ calls' = Append(calls, "get_eth_balance")
    /\ eth_balance' = get_eth_balance(eth_reply)
    /\ wallet_pc' = "polygon"
    /\ UNCHANGED << walletInputs, polygon_balance, tokens, defi_positions,
                    wallet >>
    /\ UNCHANGED << domainVars, tokenVars, credibilityVars, newsVars, aiVars >>

\* Line 145
WalletPolygonBalance ==
    /\ wallet_pc = "polygon"
    /\ calls' = Append(calls, "get_polygon_balance")
    /\ polygon_balance' = get_polygon_balance(polygon_reply)
    /\ wallet_pc' = "tokens"
    /\ UNCHANGED << walletInputs, eth_balance, tokens, defi_positions, wallet >>
    /\ UNCHANGED << domainVars, tokenVars, credibilityVars, newsVars, aiVars >>

\* Line 146
WalletEthTokens ==
    /\ wallet_pc = "tokens"
    /\ calls' = Append(calls, "get_eth_tokens")
    /\ tokens' = get_eth_tokens(token_reply)
    /\ wallet_pc' = "defi"
    /\ UNCHANGED << walletInputs, eth_balance, polygon_balance, defi_positions,
                    wallet >>
    /\ UNCHANGED << domainVars, tokenVars, credibilityVars, newsVars, aiVars >>

\* Line 147
WalletDefiPositions ==
    /\ wallet_pc = "defi"
    /\ calls' = Append(calls, "get_defi_positions")
    /\ defi_positions' = get_defi_positions
    /\ wallet_pc' = "compile"
    /\ UNCHANGED << walletInputs, eth_balance, polygon_balance, tokens, wallet >>
    /\ UNCHANGED << domainVars, tokenVars, credibilityVars, newsVars, aiVars >>

\* Lines 149-164.  last_updated, the clock's reading, is left out.  None of the
\* four functions raises, so the handler's except clause (500) is never
\* entered.
WalletCompile ==
    /\ wallet_pc = "compile"
    /\ wallet' = Response(200,
                     [address |-> address,
                      native_balances |-> NativeBalances(eth_balance,
                                                         polygon_balance),
                      tokens |-> tokens,
                      defi_positions |-> defi_positions])
    /\ wallet_pc' = "done"
    /\ UNCHANGED << walletInputs, calls, eth_balance, polygon_balance, tokens,
                    defi_positions >>
    /\ UNCHANGED << domainVars, tokenVars, credibilityVars, newsVars, aiVars >>

(* Inputs of get_wallet_assets *)

Hex40 == "52908400098527886E0F7030069857D2E4169EE7"

\* A well-formed address; 0X for 0x; the example of a short one; one
\* character too many; 42 characters that do not start with 0x.
Addresses ==
    { "0x" \o Hex40, "0X" \o Hex40, "0x1234", "0x" \o Hex40 \o "0",
      Hex40 \o "0x" }

BalanceReplies ==
    { RequestFailed, NotJson,
      Json([status |-> "0", message |-> "NOTOK",
            result |-> "Max rate limit reached"]),
      Json([status |-> "1", message |-> "OK", result |-> "1500"]),
      Json([status |-> "1", message |-> "OK", result |-> "007"]),
      Json([status |-> "1", message |-> "OK", result |-> "0"]),
      Json([status |-> "1", message |-> "OK", result |-> "pending"]),
      Json([message |-> "OK"]) }

Transfer(symbol, name, contract, decimal) ==
    [tokenSymbol |-> symbol, tokenName |-> name, contractAddress |-> contract,
     tokenDecimal |-> decimal]

TokenReplies ==
    { RequestFailed,
      Json([status |-> "0", message |-> "No transactions found",
            result |-> <<>>]),
      Json([status |-> "1", message |-> "OK",
            result |-> << Transfer("USDC", "USD Coin", "0xa0b8", "6"),
                          Transfer("DAI", "Dai Stablecoin", "0x6b17", "18"),
                          Transfer("USDC", "USD Coin", "0xa0b8", "6") >>]) }

InitWallet ==
    /\ address \in Addresses
    /\ eth_reply \in BalanceReplies
    /\ polygon_reply \in BalanceReplies
    /\ token_reply \in TokenReplies
    /\ wallet_pc = "validate"
    /\ calls = <<>>
    /\ eth_balance = NoneObject
    /\ polygon_balance = NoneObject
    /\ tokens = <<>>
    /\ defi_positions = <<>>
    /\ wallet = NotCalled
    /\ IdleTokens
    /\ IdleCredibility
    /\ IdleNews
    /\ IdleAi
    /\ IdleDomain

NextWallet ==
    \/ WalletValidate
    \/ WalletEthBalance
    \/ WalletPolygonBalance
    \/ WalletEthTokens
    \/ WalletDefiPositions
    \/ WalletCompile

SpecWallet == InitWallet /\ [][NextWallet]_vars

-----------------------------------------------------------------------------
(* routes/blockchain.py: get_eth_tokens on its own *)

GetEthTokens ==
    /\ eth_tokens = NotCalled
    /\ eth_tokens' = Returned(get_eth_tokens(transfers_reply))
    /\ UNCHANGED transfers_reply
    /\ UNCHANGED << domainVars, walletVars, credibilityVars, newsVars, aiVars >>

(* Inputs of get_eth_tokens: histories that end around the 50th event *)

MaxEdgeEvents == 2

\* Two events of one symbol with different metadata, an event whose
\* tokenDecimal is not a number, an event without any of the keys, and a
\* second symbol.
EdgeTransfers ==
    { Transfer("USDC", "USD Coin", "0xa0b8", "6"),
      Transfer("USDC", "USD Coin (old)", "0xdead", "18"),
      Transfer("DAI", "Dai", "0x6b17", "eighteen"),
      << >>,
      Transfer("DAI", "Dai Stablecoin", "0x6b17", "18") }

Filler == Transfer("WETH", "Wrapped Ether", "0xc02a", "18")

EdgeHistories == UNION { [1..n -> EdgeTransfers] : n \in 0..MaxEdgeEvents }

\* Up to MaxEdgeEvents events, then `fill` events of one token, then up to
\* MaxEdgeEvents events
History(head, fill, tail) == head \o [i \in 1..fill |-> Filler] \o tail

Fills == {0} \cup { ScanLimit - k : k \in 0..3 }

TransferReplies ==
    { RequestFailed, NotJson,
      Json([status |-> "0", message |-> "No transactions found",
            result |-> <<>>]) }
    \cup { Json([status |-> "1", message |-> "OK",
                 result |-> History(head, fill, tail)]) :
             head \in EdgeHistories, fill \in Fills, tail \in EdgeHistories }

InitTokens ==
    /\ transfers_reply \in TransferReplies
    /\ eth_tokens = NotCalled
    /\ IdleWallet
    /\ IdleCredibility
    /\ IdleNews
    /\ IdleAi
    /\ IdleDomain

NextTokens == GetEthTokens

SpecTokens == InitTokens /\ [][NextTokens]_vars

-----------------------------------------------------------------------------
(* routes/news.py: get_source_credibility *)

CREDIBLE_SOURCES ==
    [top_tier |-> <<"Reuters", "Bloomberg", "Wall Street Journal",
                    "Financial Times", "Associated Press", "CNBC">>,
     secondary |-> <<"MarketWatch", "Seeking Alpha", "Yahoo Finance",
                     "Investopedia", "Barrons">>,
     crypto |-> <<"CoinDesk", "The Block", "Decrypt", "Bitcoin Magazine",
                  "Cointelegraph">>]

\* One of the three loops: some src of the tier has src.lower() in source_lower
TierMatches(tier, source_lower) ==
    \E i \in 1..Len(CREDIBLE_SOURCES[tier]) :
        StrIn(Lower(CREDIBLE_SOURCES[tier][i]), source_lower)

\* The loops in the order crypto, top_tier, secondary
get_source_credibility_crypto_first(name) ==
    LET source_lower == Lower(name)
    IN  IF TierMatches("crypto", source_lower) THEN "crypto"
        ELSE IF TierMatches("top_tier", source_lower) THEN "high"
        ELSE IF TierMatches("secondary", source_lower) THEN "medium"
        ELSE "unknown"

get_source_credibility(name) ==
    LET source_lower == Lower(name)
    IN  IF TierMatches("top_tier", source_lower) THEN "high"
        ELSE IF TierMatches("secondary", source_lower) THEN "medium"
        ELSE IF TierMatches("crypto", source_lower) THEN "crypto"
        ELSE "unknown"

GetSourceCredibility ==
    /\ credibility = NotCalled
    /\ credibility' = Returned(get_source_credibility(source))
    /\ UNCHANGED source
    /\ UNCHANGED << domainVars, blockchainVars, newsVars, aiVars >>

(* Inputs of get_source_credibility *)

MaxNameParts == 2

NameParts ==
    { "Reuters", " Crypto Desk", "CoinDesk", " Markets", "MARKETWATCH",
      "The Block", "Barrons", " Blog" }

RECURSIVE SourceNamesUpTo(_)
SourceNamesUpTo(n) ==
    IF n = 0 THEN {""}
    ELSE LET shorter == SourceNamesUpTo(n - 1)
         IN  shorter \cup {s \o f : s \in shorter, f \in NameParts}

SourceNames == SourceNamesUpTo(MaxNameParts)

InitCredibility ==
    /\ source \in SourceNames
    /\ credibility = NotCalled
    /\ IdleBlockchain
    /\ IdleNews
    /\ IdleAi
    /\ IdleDomain

NextCredibility == GetSourceCredibility

SpecCredibility == InitCredibility /\ [][NextCredibility]_vars

-----------------------------------------------------------------------------
(* routes/news.py: get_news *)

Min(a, b) == IF a < b THEN a ELSE b

\* seq[:n] for any integer n: a negative n counts from the end
SliceTo(seq, n) ==
    IF n >= 0 THEN Prefix(seq, n)
    ELSE SubSeq(seq, 1, IF Len(seq) + n > 0 THEN Len(seq) + n ELSE 0)

\* request.args.get(key, default, type=int): the default when the parameter
\* is absent or int() raises on it
ArgInt(args, key, default) ==
    IF key \notin DOMAIN args THEN default
    ELSE LET text == args[key]
         IN  IF IsInt(text) THEN ParseInt(text)
             ELSE IF Len(text) > 1 /\ SubSeq(text, 1, 1) = "-"
                     /\ IsInt(SubSeq(text, 2, Len(text)))
                  THEN 0 - ParseInt(SubSeq(text, 2, Len(text)))
             ELSE default

DefaultLimit == 10

MaxLimit == 50

\* The articles of get_mock_news, with the fields the claims speak of (the
\* title, summary, url, image and dates are left out)
MockArticle(id, name, tier, category) ==
    [id |-> id, source |-> name, credibility |-> tier, category |-> category]

MockArticles ==
    << MockArticle(1, "Reuters", "high", "general"),
       MockArticle(2, "Bloomberg", "high", "general"),
       MockArticle(3, "CoinDesk", "crypto", "crypto"),
       MockArticle(4, "Wall Street Journal", "high", "general"),
       MockArticle(5, "CNBC", "high", "general") >>

RECURSIVE OfCategory(_, _)
OfCategory(articles, category) ==
    IF articles = <<>> THEN <<>>
    ELSE IF Head(articles).category = category
         THEN <<Head(articles)>> \o OfCategory(Tail(articles), category)
         ELSE OfCategory(Tail(articles), category)

get_mock_news(category, limit) ==
    SliceTo(IF category # "general" THEN OfCategory(MockArticles, category)
            ELSE MockArticles,
            limit)

\* The loop of lines 88-112 over data (which is data[:limit * 2]) from
\* article i on; `articles` is the list built so far.
RECURSIVE NewsLoop(_, _, _, _, _, _)
NewsLoop(data, i, limit, credible_only, category, articles) ==
    IF i > Len(data) THEN articles
    ELSE LET article == data[i]
             name == Get(article, "source", "Unknown")
             tier == get_source_credibility(name)
         IN  IF credible_only /\ tier = "unknown"
             THEN NewsLoop(data, i + 1, limit, credible_only, category, articles)
             ELSE LET appended ==
                          Append(articles,
                                 [id |-> Get(article, "id", PyNone),
                                  source |-> name,
                                  credibility |-> tier,
                                  category |-> category])
                  IN  IF Len(appended) >= limit THEN appended
                      ELSE NewsLoop(data, i + 1, limit, credible_only,
                                    category, appended)

\* A Finnhub reply that is a JSON object (an error document), not a list
JsonObject == [kind |-> "json-object"]

get_news ==
    /\ news = NotCalled
    /\ LET category == Get(news_args, "category", "general")
           limit == Min(ArgInt(news_args, "limit", DefaultLimit), MaxLimit)
           credible_only ==
               Lower(Get(news_args, "credible_only", "false")) = "true"
       IN  IF ~finnhub_key
           THEN news' = Response(200, [success |-> TRUE,
                                       articles |-> get_mock_news(category,
                                                                  limit),
                                       source |-> "mock"])
           ELSE IF news_feed.kind # "json"
           THEN news' = Response(500, [success |-> FALSE])
           ELSE LET articles == NewsLoop(SliceTo(news_feed.data, limit * 2), 1,
                                         limit, credible_only, category, <<>>)
                IN  news' = Response(200, [success |-> TRUE,
                                           category |-> category,
                                           count |-> Len(articles),
                                           articles |-> articles])
    /\ UNCHANGED << finnhub_key, news_args, news_feed >>
    /\ UNCHANGED << domainVars, blockchainVars, credibilityVars, aiVars >>

(* Inputs of get_news *)

MaxArticles == 3

\* A top-tier source, one of no tier, and no source at all
FeedSources == {"Reuters", "Crypto Blog", Absent}

FeedArticle(id, name) ==
    IF name = Absent THEN [id |-> id] ELSE [id |-> id, source |-> name]

\* Up to MaxArticles articles of any source, followed by `fill` articles of
\* Bloomberg
Feed(names, fill) ==
    [i \in 1..(Len(names) + fill) |->
        IF i <= Len(names) THEN FeedArticle(i, names[i])
        ELSE FeedArticle(i, "Bloomberg")]

FeedReplies ==
    { RequestFailed, NotJson, JsonObject }
    \cup { Json(Feed(names, fill)) :
             names \in UNION { [1..n -> FeedSources] : n \in 0..MaxArticles },
             fill \in {0, MaxLimit + 1} }

QueryArgs(name, values) ==
    {<<>>} \cup { [k \in {name} |-> v] : v \in values }

NewsArgs ==
    { Merge(Merge(c, l), o) :
        c \in QueryArgs("category", {"crypto"}),
        l \in QueryArgs("limit", {"-1", "0", "2", "60", "ten"}),
        o \in QueryArgs("credible_only", {"TRUE", "yes"}) }

\* Without a key no request is made, so no reply is drawn.
InitNews ==
    /\ finnhub_key \in BOOLEAN
    /\ news_args \in NewsArgs
    /\ news_feed \in IF finnhub_key THEN FeedReplies ELSE {NoneObject}
    /\ news = NotCalled
    /\ IdleBlockchain
    /\ IdleCredibility
    /\ IdleAi
    /\ IdleDomain

NextNews == get_news

SpecNews == InitNews /\ [][NextNews]_vars

-----------------------------------------------------------------------------
(* routes/ai.py: get_system_prompt *)

(* A JSON value, as request.json delivers it: None, an int, a str, a dict   *)
(* (its items in order) or a list.                                           *)
JNull == [t |-> "null"]

JInt(n) == [t |-> "int", int |-> n]

JStr(s) == [t |-> "str", str |-> s]

JObj(items) == [t |-> "dict", items |-> items]

JList(elements) == [t |-> "list", elements |-> elements]

Item(key, value) == [key |-> key, value |-> value]

RECURSIVE Spaces(_)
Spaces(n) == IF n = 0 THEN "" ELSE " " \o Spaces(n - 1)

\* The escapes of json.dumps for the characters of the model's strings
EscapeChar(c) ==
    CASE c = "\"" -> "\\\""
      [] c = "\\" -> "\\\\"
      [] c = "\n" -> "\\n"
      [] OTHER -> c

RECURSIVE Escape(_)
Escape(s) ==
    IF s = "" THEN ""
    ELSE EscapeChar(SubSeq(s, 1, 1)) \o Escape(SubSeq(s, 2, Len(s)))

Quoted(s) == "\"" \o Escape(s) \o "\""

\* json.dumps(value, indent=2) at nesting depth `level`
RECURSIVE Dumps(_, _)
Dumps(value, level) ==
    LET inner == Spaces(2 * (level + 1))
        RenderedItem(i) ==
            inner \o Quoted(value.items[i].key) \o ": "
            \o Dumps(value.items[i].value, level + 1)
        RenderedElement(i) == inner \o Dumps(value.elements[i], level + 1)
        Joined[n \in Nat] ==
            IF n = 0 THEN ""
            ELSE (IF n = 1 THEN "" ELSE Joined[n - 1] \o ",\n")
                 \o (IF value.t = "dict" THEN RenderedItem(n)
                     ELSE RenderedElement(n))
    IN  CASE value.t = "null" -> "null"
          [] value.t = "int" ->
                 IF value.int < 0 THEN "-" \o IntToStr(0 - value.int)
                 ELSE IntToStr(value.int)
          [] value.t = "str" -> Quoted(value.str)
          [] value.t = "dict" ->
                 IF value.items = <<>> THEN "{}"
                 ELSE "{\n" \o Joined[Len(value.items)] \o "\n"
                      \o Spaces(2 * level) \o "}"
          [] value.t = "list" ->
                 IF value.elements = <<>> THEN "[]"
                 ELSE "[\n" \o Joined[Len(value.elements)] \o "\n"
                      \o Spaces(2 * level) \o "]"

\* The first sentence of base_prompt; the guidelines that follow it in the
\* source are a fixed text.
base_prompt == "You are a helpful AI financial advisor assistant."

\* `if financial_context:` for None or a dict
Truthy(context) == context # NoneObject /\ DOMAIN context # {}

\* The entries read without a default: a missing one is None
get_system_prompt_without_defaults(context) ==
    IF Truthy(context)
    THEN base_prompt
         \o "\n\nCurrent User Financial Context:\n- Blockchain Assets: "
         \o Dumps(Get(context, "blockchain", JNull), 0)
         \o "\n- Banking Data: "
         \o Dumps(Get(context, "banking", JNull), 0)
         \o "  \n- Trading Portfolio: "
         \o Dumps(Get(context, "trading", JNull), 0)
         \o "\n"
    ELSE base_prompt

get_system_prompt(context) ==
    IF Truthy(context)
    THEN base_prompt
         \o "\n\nCurrent User Financial Context:\n- Blockchain Assets: "
         \o Dumps(Get(context, "blockchain", JObj(<<>>)), 0)
         \o "\n- Banking Data: "
         \o Dumps(Get(context, "banking", JObj(<<>>)), 0)
         \o "  \n- Trading Portfolio: "
         \o Dumps(Get(context, "trading", JObj(<<>>)), 0)
         \o "\n"
    ELSE base_prompt

GetSystemPrompt ==
    /\ system_prompt = NotCalled
    /\ system_prompt' = Returned(get_system_prompt(financial_context))
    /\ UNCHANGED financial_context
    /\ UNCHANGED << domainVars, blockchainVars, credibilityVars, newsVars,
                    chatVars >>

(* Inputs of get_system_prompt *)

MaxNesting == 1

JsonLeaves ==
    { JNull, JStr("say \"hi\""), JObj(<<>>),
      JObj(<< Item("balance", JInt(-4)), Item("note", JNull) >>) }

RECURSIVE JsonValues(_)
JsonValues(depth) ==
    IF depth = 0 THEN JsonLeaves
    ELSE LET inner == JsonValues(depth - 1)
         IN  inner \cup { JObj(<< Item("data", v) >>) : v \in inner }
                   \cup { JList(<< v >>) : v \in inner }

EntryValues == JsonValues(MaxNesting)

Entry(key) == {<<>>} \cup { [k \in {key} |-> v] : v \in EntryValues }

\* No context (null), a dict with any of the three entries, or a dict with
\* another key only
Contexts ==
    { NoneObject, [goals |-> JStr("retire")] }
    \cup { Merge(Merge(b, k), t) :
             b \in Entry("blockchain"), k \in Entry("banking"),
             t \in Entry("trading") }

InitPrompt ==
    /\ financial_context \in Contexts
    /\ system_prompt = NotCalled
    /\ IdleChat
    /\ IdleBlockchain
    /\ IdleCredibility
    /\ IdleNews
    /\ IdleDomain

NextPrompt == GetSystemPrompt

SpecPrompt == InitPrompt /\ [][NextPrompt]_vars

-----------------------------------------------------------------------------
(* routes/ai.py: chat and clear_conversation *)

(* The requests run in threads that share the dict `conversations`; a      *)
(* thread can be suspended between two statements, and is waiting while    *)
(* the completion request is out.  Each action below is one statement of a *)
(* handler, executed by one request.                                       *)

HistoryWindow == 10

\* seq[-n:] for n > 0
LastEntries(seq, n) ==
    SubSeq(seq, IF Len(seq) > n THEN Len(seq) - n + 1 ELSE 1, Len(seq))

Message(role, content) == [role |-> role, content |-> content]

\* d[k] = v
Store(d, k, v) == [i \in DOMAIN d \cup {k} |-> IF i = k THEN v ELSE d[i]]

\* del d[k]
Delete(d, k) == [i \in DOMAIN d \ {k} |-> d[i]]

\* conversations[id].insert(0, message)
WithMessageFirst(d, id, message) == Store(d, id, <<message>> \o d[id])

\* conversations[id].append(message)
WithMessage(d, id, message) == Store(d, id, Append(d[id], message))

\* A chat request that has not arrived.  stored_at_call and cleared are
\* history fields: the conversation as it was stored when the request built
\* its messages, and whether the conversation was deleted between the
\* request's two appends.
NewChat ==
    [pc |-> "idle", message |-> PyNone, conversation_id |-> PyNone,
     messages |-> <<>>, assistant_message |-> PyNone, response |-> NotCalled,
     stored_at_call |-> <<>>, cleared |-> FALSE]

NewClear == [pc |-> "idle", conversation_id |-> PyNone, response |-> NotCalled]

\* The except clause of chat (lines 106-110), or a return with an error
Fail(r, status) ==
    chats' = [chats EXCEPT ![r].pc = "done",
                           ![r].response = Response(status,
                                                    [success |-> FALSE])]

\* Lines 52-68: the body is read and the request rejected when the message
\* is missing or empty (400) or the API key is not set (500).
ChatReceive(r, body) ==
    /\ chats[r].pc = "idle"
    /\ \A earlier \in 1..(r - 1) : chats[earlier].pc # "idle"
    /\ LET user_message == Get(body, "message", PyNone)
           conversation_id == Get(body, "conversation_id", "default")
       IN  chats' =
               [chats EXCEPT
                  ![r].message = user_message,
                  ![r].conversation_id = conversation_id,
                  ![r].pc = IF user_message \in {PyNone, ""} \/ ~openai_key
                            THEN "done" ELSE "check",
                  ![r].response =
                      IF user_message \in {PyNone, ""}
                      THEN Response(400, [success |-> FALSE])
                      ELSE IF ~openai_key
                      THEN Response(500, [success |-> FALSE])
                      ELSE NotCalled]
    /\ arrivals' = Append(arrivals, r)
    /\ UNCHANGED << openai_key, conversations, clears, stored_before >>
    /\ UNCHANGED << domainVars, blockchainVars, credibilityVars, newsVars,
                    promptVars >>

\* Line 72
ChatCheck(r) ==
    /\ chats[r].pc = "check"
    /\ chats' = [chats EXCEPT
                   ![r].pc = IF chats[r].conversation_id
                                 \notin DOMAIN conversations
                             THEN "create" ELSE "append_user"]
    /\ UNCHANGED << openai_key, conversations, clears, arrivals,
                    stored_before >>
    /\ UNCHANGED << domainVars, blockchainVars, credibilityVars, newsVars,
                    promptVars >>

\* Line 73
ChatCreate(r) ==
    /\ chats[r].pc = "create"
    /\ conversations' = Store(conversations, chats[r].conversation_id, <<>>)
    /\ chats' = [chats EXCEPT ![r].pc = "append_user"]
    /\ UNCHANGED << openai_key, clears, arrivals, stored_before >>
    /\ UNCHANGED << domainVars, blockchainVars, credibilityVars, newsVars,
                    promptVars >>

\* Lines 76-79; a KeyError when the conversation is not there
ChatAppendUser(r) ==
    /\ chats[r].pc = "append_user"
    /\ LET id == chats[r].conversation_id
       IN  IF id \in DOMAIN conversations
           THEN /\ conversations' =
                       WithMessage(conversations, id,
                                   Message("user", chats[r].message))
                /\ chats' = [chats EXCEPT ![r].pc = "build"]
           ELSE /\ Fail(r, 500)
                /\ UNCHANGED conversations
    /\ UNCHANGED << openai_key, clears, arrivals, stored_before >>
    /\ UNCHANGED << domainVars, blockchainVars, credibilityVars, newsVars,
                    promptVars >>

\* Lines 84-87: the messages of the completion request, built before the
\* request is sent.  The financial context of the body is the default {}.
ChatBuildMessages(r) ==
    /\ chats[r].pc = "build"
    /\ LET id == chats[r].conversation_id
       IN  IF id \in DOMAIN conversations
           THEN chats' =
                    [chats EXCEPT
                       ![r].pc = "call",
                       ![r].messages =
                           << Message("system", get_system_prompt(<<>>)) >>
                           \o LastEntries(conversations[id], HistoryWindow),
                       ![r].stored_at_call = conversations[id]]
           ELSE Fail(r, 500)
    /\ UNCHANGED << openai_key, conversations, clears, arrivals,
                    stored_before >>
    /\ UNCHANGED << domainVars, blockchainVars, credibilityVars, newsVars,
                    promptVars >>

\* Lines 82-93: the completion comes back with a reply
ChatCompletion(r, reply) ==
    /\ chats[r].pc = "call"
    /\ chats' = [chats EXCEPT ![r].pc = "append_reply",
                              ![r].assistant_message = reply]
    /\ UNCHANGED << openai_key, conversations, clears, arrivals,
                    stored_before >>
    /\ UNCHANGED << domainVars, blockchainVars, credibilityVars, newsVars,
                    promptVars >>

\* Lines 82-93 and 106-110: the completion request raises
ChatCompletionFails(r) ==
    /\ chats[r].pc = "call"
    /\ Fail(r, 500)
    /\ UNCHANGED << openai_key, conversations, clears, arrivals,
                    stored_before >>
    /\ UNCHANGED << domainVars, blockchainVars, credibilityVars, newsVars,
                    promptVars >>

\* Lines 95-104; a KeyError when the conversation is not there
ChatAppendReply(r) ==
    /\ chats[r].pc = "append_reply"
    /\ LET id == chats[r].conversation_id
       IN  IF id \in DOMAIN conversations
           THEN /\ conversations' =
                       WithMessage(conversations, id,
                                   Message("assistant",
                                           chats[r].assistant_message))
                /\ chats' =
                       [chats EXCEPT
                          ![r].pc = "done",
                          ![r].response =
                              Response(200,
                                       [success |-> TRUE,
                                        response |-> chats[r].assistant_message,
                                        conversation_id |-> id])]
           ELSE /\ Fail(r, 500)
                /\ UNCHANGED conversations
    /\ UNCHANGED << openai_key, clears, arrivals, stored_before >>
    /\ UNCHANGED << domainVars, blockchainVars, credibilityVars, newsVars,
                    promptVars >>

\* Lines 260-263 and, when the conversation is not there, 266-269
ClearCheck(c, body) ==
    /\ clears[c].pc = "idle"
    /\ \A earlier \in 1..(c - 1) : clears[earlier].pc # "idle"
    /\ LET conversation_id == Get(body, "conversation_id", "default")
       IN  clears' =
               [clears EXCEPT
                  ![c].conversation_id = conversation_id,
                  ![c].pc = IF conversation_id \in DOMAIN conversations
                            THEN "delete" ELSE "done",
                  ![c].response =
                      IF conversation_id \in DOMAIN conversations
                      THEN NotCalled
                      ELSE Response(200, [success |-> TRUE])]
    /\ UNCHANGED << openai_key, conversations, chats, arrivals, stored_before >>
    /\ UNCHANGED << domainVars, blockchainVars, credibilityVars, newsVars,
                    promptVars >>

\* A chat request that has appended its user message and not yet its reply
BetweenAppends(r) == chats[r].pc \in {"build", "call", "append_reply"}

\* Lines 264-269.  The handler has no except clause: a KeyError of `del`
\* is answered by Flask with 500.
ClearDelete(c) ==
    /\ clears[c].pc = "delete"
    /\ LET id == clears[c].conversation_id
       IN  IF id \in DOMAIN conversations
           THEN /\ conversations' = Delete(conversations, id)
                /\ clears' = [clears EXCEPT
                                ![c].pc = "done",
                                ![c].response = Response(200,
                                                         [success |-> TRUE])]
                /\ chats' =
                       [r \in DOMAIN chats |->
                           IF chats[r].conversation_id = id /\ BetweenAppends(r)
                           THEN [chats[r] EXCEPT !.cleared = TRUE]
                           ELSE chats[r]]
           ELSE /\ clears' = [clears EXCEPT
                                ![c].pc = "done",
                                ![c].response = Response(500,
                                                         [success |-> FALSE])]
                /\ UNCHANGED << conversations, chats >>
    /\ UNCHANGED << openai_key, arrivals, stored_before >>
    /\ UNCHANGED << domainVars, blockchainVars, credibilityVars, newsVars,
                    promptVars >>

(* Inputs of chat and clear_conversation *)

MaxChats == 2

MaxClears == 1

ChatRequests == 1..MaxChats

ClearRequests == 1..MaxClears

\* No message, an empty one, or a question; the default conversation or a
\* named one
ChatBodies ==
    { Merge(m, c) :
        m \in {<<>>} \cup { [message |-> text] : text \in {"", "save?", "invest?"} },
        c \in {<<>>, [conversation_id |-> "trip"]} }

ClearBodies == {<<>>, [conversation_id |-> "trip"]}

AdvisoryReplies == {"yes", "no"}

\* The history that `pairs` earlier requests have left
Earlier(pairs) ==
    [j \in 1..(2 * pairs) |->
        IF j % 2 = 1 THEN Message("user", "q" \o IntToStr((j + 1) \div 2))
        ELSE Message("assistant", "r" \o IntToStr(j \div 2))]

\* Each conversation is absent or holds as many entries as the window.
InitialConversations ==
    LET histories == { Earlier(HistoryWindow \div 2) }
    IN  { Merge(d, t) :
            d \in {<<>>} \cup { [default |-> h] : h \in histories },
            t \in {<<>>} \cup { [trip |-> h] : h \in histories } }

InitChat ==
    /\ openai_key \in BOOLEAN
    /\ conversations \in InitialConversations
    /\ stored_before = conversations
    /\ chats = [r \in ChatRequests |-> NewChat]
    /\ clears = [c \in ClearRequests |-> NewClear]
    /\ arrivals = <<>>
    /\ IdlePrompt
    /\ IdleBlockchain
    /\ IdleCredibility
    /\ IdleNews
    /\ IdleDomain

\* The statements of a chat request after its arrival
ChatStep(r) ==
    \/ ChatCheck(r)
    \/ ChatCreate(r)
    \/ ChatAppendUser(r)
    \/ ChatBuildMessages(r)
    \/ \E reply \in AdvisoryReplies : ChatCompletion(r, reply)
    \/ ChatCompletionFails(r)
    \/ ChatAppendReply(r)

NextChat ==
    \/ \E r \in ChatRequests, body \in ChatBodies : ChatReceive(r, body)
    \/ \E r \in ChatRequests : ChatStep(r)
    \/ \E c \in ClearRequests, body \in ClearBodies : ClearCheck(c, body)
    \/ \E c \in ClearRequests : ClearDelete(c)

\* Requests in any interleaving
SpecChat == InitChat /\ [][NextChat]_vars

InProgress(r) == chats[r].pc \notin {"idle", "done"}

\* A chat request arrives when no other request on its conversation is in
\* progress.
SerializedChatReceive(r, body) ==
    /\ \A other \in ChatRequests \ {r} :
           InProgress(other) =>
               chats[other].conversation_id
                   # Get(body, "conversation_id", "default")
    /\ ChatReceive(r, body)

NextChatSerialized ==
    \/ \E r \in ChatRequests, body \in ChatBodies :
           SerializedChatReceive(r, body)
    \/ \E r \in ChatRequests : ChatStep(r)

\* Chat requests alone, those on one conversation one after the other
SpecChatSerialized == InitChat /\ [][NextChatSerialized]_vars

-----------------------------------------------------------------------------
(* Properties of the classifier *)

EssentialKeywords ==
    {ESSENTIAL_CATEGORIES[i] : i \in 1..Len(ESSENTIAL_CATEGORIES)}

\* The text of a field: the empty string when the key is absent.
FieldText(t, k) == IF k \in DOMAIN t THEN t[k] ELSE ""

\* name and category are each absent or a string
HasTextFields(t) ==
    FieldText(t, "name") # PyNone /\ FieldText(t, "category") # PyNone

MatchesEssential(t) ==
    LET name == Lower(FieldText(t, "name"))
        category == Lower(FieldText(t, "category"))
    IN  \E kw \in EssentialKeywords : StrIn(kw, name) \/ StrIn(kw, category)

\* C1: for a transaction whose name and category are strings (or absent),
\* categorize_transaction returns, is_essential is true if and only if some
\* essential keyword is a substring of the lower-cased name or of the
\* lower-cased category, and category_type is 'essential' exactly when
\* is_essential is true and 'non-essential' otherwise.
C1_EssentialIffKeyword ==
    (categorized.status # "not-called" /\ HasTextFields(transaction)) =>
        /\ categorized.status = "returned"
        /\ categorized.value["is_essential"] = MatchesEssential(transaction)
        /\ categorized.value["category_type"] =
               (IF MatchesEssential(transaction) THEN "essential"
                ELSE "non-essential")

\* The name matches no keyword and the category matches 'rent' in upper case.
C1_Witness ==
    /\ categorized.status = "returned"
    /\ FieldText(transaction, "name") = "asT"
    /\ FieldText(transaction, "category") = "RENT"
    /\ categorized.value["is_essential"] = TRUE
    /\ categorized.value["category_type"] = "essential"

\* C2: classifying the result of a classification returns that same result,
\* and a classification carries every field of the transaction over unchanged
\* (is_essential and category_type are the two keys it sets).
C2_Idempotent ==
    /\ categorized.status = "returned" =>
           /\ DOMAIN categorized.value =
                  DOMAIN transaction \cup {"is_essential", "category_type"}
           /\ \A k \in DOMAIN transaction \ {"is_essential", "category_type"} :
                  categorized.value[k] = transaction[k]
    /\ recategorized.status # "not-called" => recategorized = categorized

\* A transaction tagged non-essential by an earlier, wrong classification is
\* classified essential, and classifying the result again changes nothing.
C2_Witness ==
    /\ recategorized.status = "returned"
    /\ "is_essential" \in DOMAIN transaction
    /\ transaction["is_essential"] = FALSE
    /\ recategorized.value["is_essential"] = TRUE
    /\ FieldText(transaction, "name") = "asGas"

\* A field with nothing to match: absent, None or the empty string.
Unusable(t, k) == FieldText(t, k) \in {"", PyNone}

\* C3: categorize_transaction returns for every record, also one whose name or
\* category is empty, absent or None, and a record with no usable name and no
\* usable category is classified non-essential.
C3_Total ==
    categorized.status # "not-called" =>
        /\ categorized.status = "returned"
        /\ (Unusable(transaction, "name") /\ Unusable(transaction, "category"))
               => categorized.value["is_essential"] = FALSE

-----------------------------------------------------------------------------
(* Properties of analyze_spending *)

\* The sum of |amount| over the transactions numbered in I.
RECURSIVE SumOfMagnitudes(_)
SumOfMagnitudes(I) ==
    IF I = {} THEN 0
    ELSE LET i == CHOOSE j \in I : TRUE
         IN  Abs(IF "amount" \in DOMAIN transactions[i]
                 THEN transactions[i]["amount"] ELSE 0)
             + SumOfMagnitudes(I \ {i})

All == 1..Len(transactions)

TaggedEssential ==
    {i \in All : "is_essential" \in DOMAIN transactions[i]
                 /\ transactions[i]["is_essential"] = TRUE}

\* C4: the magnitude of every transaction is added to total_spent and to
\* exactly one of essential_spent (tag true) and non_essential_spent (tag false
\* or absent): the three sums are those of the magnitudes, so that
\* essential_spent + non_essential_spent = total_spent and none is negative,
\* whatever the signs of the amounts. Each reported figure is its sum rounded
\* to 2 decimals.
C4_SpentPartition ==
    /\ total_spent = SumOfMagnitudes(All)
    /\ essential_spent = SumOfMagnitudes(TaggedEssential)
    /\ non_essential_spent = SumOfMagnitudes(All \ TaggedEssential)
    /\ essential_spent + non_essential_spent = total_spent
    /\ total_spent >= 0 /\ essential_spent >= 0 /\ non_essential_spent >= 0
    /\ analysis.status = "returned" =>
           /\ analysis.value.total_spent >= 0
           /\ analysis.value.essential_spent >= 0
           /\ analysis.value.non_essential_spent >= 0
           /\ 2 * Abs(10 * analysis.value.total_spent - total_spent) <= 10
           /\ 2 * Abs(10 * analysis.value.essential_spent - essential_spent)
                  <= 10
           /\ 2 * Abs(10 * analysis.value.non_essential_spent
                      - non_essential_spent) <= 10

\* A refund tagged essential, an untagged purchase and one tagged false.
C4_Witness ==
    /\ analysis.status = "returned"
    /\ Len(transactions) = 3
    /\ transactions[1] = [amount |-> -39, is_essential |-> TRUE]
    /\ transactions[2] = [amount |-> 9]
    /\ transactions[3] = [amount |-> 4, is_essential |-> FALSE]
    /\ essential_spent = 39
    /\ non_essential_spent = 13
    /\ total_spent = 52

PercentTie == 2 * ((essential_spent * 1000) % total_spent) = total_spent

RawCategories ==
    {transactions[i]["category"] :
        i \in {j \in All : "category" \in DOMAIN transactions[j]}}

WithRawCategory(c) ==
    {i \in All : "category" \in DOMAIN transactions[i]
                 /\ transactions[i]["category"] = c}

\* C6 as stated: the keys of the returned category_breakdown are exactly the
\* distinct category strings of the input, and each value is the sum of
\* |amount| over the transactions of that category.
C6_BreakdownOfRawCategories ==
    analysis.status = "returned" =>
        LET cb == analysis.value.category_breakdown
        IN  /\ Keys(cb) = RawCategories
            /\ \A i \in 1..Len(cb) :
                   10 * cb[i].v = SumOfMagnitudes(WithRawCategory(cb[i].k))

\* The category a transaction is counted under.
CountedUnder(i) ==
    IF "category" \in DOMAIN transactions[i]
    THEN transactions[i]["category"] ELSE "Other"

CountedCategories == {CountedUnder(i) : i \in All}

CategorySum(c) == SumOfMagnitudes({i \in All : CountedUnder(i) = c})

\* C6, amended: a transaction without a category is counted under 'Other';
\* the keys of the returned category_breakdown are exactly the distinct
\* categories so counted, each once, and each value is the sum of |amount|
\* over the transactions counted under the key, rounded to 2 decimals.
C6_BreakdownOfCountedCategories ==
    /\ Keys(category_breakdown) = CountedCategories
    /\ Cardinality(Keys(category_breakdown)) = Len(category_breakdown)
    /\ \A i \in 1..Len(category_breakdown) :
           category_breakdown[i].v = CategorySum(category_breakdown[i].k)
    /\ analysis.status = "returned" =>
           LET cb == analysis.value.category_breakdown
           IN  /\ Keys(cb) = CountedCategories
               /\ Len(cb) = Cardinality(CountedCategories)
               /\ \A i \in 1..Len(cb) :
                      cb[i].v \in Round2(CategorySum(cb[i].k))

\* Two transactions without a category and two in 'Dining'.
C6_Witness ==
    /\ analysis.status = "returned"
    /\ Len(transactions) = 3
    /\ transactions[1] = [amount |-> 9]
    /\ transactions[2] = [amount |-> 4, category |-> "Dining"]
    /\ transactions[3] = [amount |-> -39, is_essential |-> TRUE]
    /\ analysis.value.category_breakdown =
           << [k |-> "Other", v |-> 5], [k |-> "Dining", v |-> 0] >>

\* The number of the first transaction counted under category c.
FirstSeen(c) ==
    CHOOSE i \in All :
        /\ CountedUnder(i) = c
        /\ \A j \in 1..(i - 1) : CountedUnder(j) # c

\* C7: the returned category_breakdown is in descending order of the summed
\* value, and of two categories with the same sum the one met first in the
\* input comes first.
C7_DescendingStable ==
    analysis.status = "returned" =>
        LET cb == analysis.value.category_breakdown
        IN  \A i, j \in 1..Len(cb) :
                i < j =>
                    /\ CategorySum(cb[i].k) >= CategorySum(cb[j].k)
                    /\ CategorySum(cb[i].k) = CategorySum(cb[j].k)
                           => FirstSeen(cb[i].k) < FirstSeen(cb[j].k)

\* 'Dining' is met last and comes first; 'Groceries' and 'Other' have the same
\* sum and keep the order in which they were met.
C7_Witness ==
    /\ analysis.status = "returned"
    /\ transactions = << [amount |-> 4, category |-> "Groceries"],
                         [amount |-> 4],
                         [amount |-> 9, category |-> "Dining"] >>
    /\ analysis.value.category_breakdown =
           << [k |-> "Dining", v |-> 1], [k |-> "Groceries", v |-> 0],
              [k |-> "Other", v |-> 0] >>

-----------------------------------------------------------------------------
(* Properties of get_portfolio *)

Types == {holdings[i].type : i \in 1..Len(holdings)}

RECURSIVE SumOfMarketValues(_)
SumOfMarketValues(I) ==
    IF I = {} THEN 0
    ELSE LET i == CHOOSE j \in I : TRUE
         IN  holdings[i].market_value + SumOfMarketValues(I \ {i})

TypeValue(ty) ==
    SumOfMarketValues({i \in 1..Len(holdings) : holdings[i].type = ty})

RECURSIVE SumOfValues(_)
SumOfValues(d) == IF d = <<>> THEN 0 ELSE d[1].v + SumOfValues(Tail(d))

\* C9: for holdings with total_value > 0 the handler returns an allocation
\* with exactly one entry per distinct type; each entry is the summed market
\* value of the type as a percent of total_value rounded to one decimal (the
\* nearest tenth; stated as a product too where the product fits 32 bits),
\* and the entries sum to 100 within 0.05 per type.
C9_AllocationSumsTo100 ==
    (portfolio.status # "not-called" /\ TotalValue(holdings) > 0) =>
        /\ portfolio.status = "returned"
        /\ LET a == portfolio.value.allocation
               total == TotalValue(holdings)
           IN  /\ Keys(a) = Types
               /\ Len(a) = Cardinality(Types)
               /\ \A i \in 1..Len(a) :
                      /\ a[i].v \in Round(TypeValue(a[i].k), total, 3)
                      /\ total <= 1000000 =>
                             2 * Abs(a[i].v * total - TypeValue(a[i].k) * 1000)
                                 <= total
               /\ 2 * Abs(SumOfValues(a) - 1000) <= Len(a)

\* Three types worth 1.000, 15.000 and 3.335: 5.2 %, 77.6 % and 17.2 %.
C9_Witness ==
    /\ portfolio.status = "returned"
    /\ Len(holdings) = 3
    /\ holdings[1].type = "stock" /\ holdings[1].market_value = 1000
    /\ holdings[2].type = "etf" /\ holdings[2].market_value = 15000
    /\ holdings[3].type = "crypto" /\ holdings[3].market_value = 3335
    /\ portfolio.value.allocation =
           << [k |-> "stock", v |-> 52], [k |-> "etf", v |-> 776],
              [k |-> "crypto", v |-> 172] >>

RECURSIVE SumOfGainLoss(_)
SumOfGainLoss(hs) ==
    IF hs = <<>> THEN 0 ELSE hs[1].gain_loss + SumOfGainLoss(Tail(hs))

\* C10: every holding the handler returns has
\* market_value = quantity * current_price,
\* gain_loss = market_value - quantity * avg_cost and, when it has a cost,
\* gain_loss_percent = gain_loss / (quantity * avg_cost) * 100 rounded to two
\* decimals; the difference of the totals is the sum of the holdings'
\* gain_loss, and the summary's total_gain_loss is that sum rounded to two
\* decimals (for the list of the source, that sum itself).
C10_DerivedFields ==
    portfolio.status = "returned" =>
        LET hs == portfolio.value.holdings
        IN  /\ hs = holdings
            /\ \A i \in 1..Len(hs) :
                   LET h == hs[i]
                       cost == h.quantity * h.avg_cost
                   IN  /\ h.market_value = h.quantity * h.current_price
                       /\ h.gain_loss = h.market_value - cost
                       /\ cost > 0 =>
                              h.gain_loss_percent
                                  \in Round(h.gain_loss, cost, 4)
            /\ TotalValue(hs) - TotalCost(hs) = SumOfGainLoss(hs)
            /\ portfolio.value.portfolio.total_gain_loss
                   \in Round2(SumOfGainLoss(hs))
            /\ hs = MockHoldings =>
                   10 * portfolio.value.portfolio.total_gain_loss
                       = SumOfGainLoss(hs)

\* The response to the list of the source: 28969.30 of value, 26779.50 of
\* cost, 2189.80 (8.18 %) of gain, 28.2 % stock and 71.8 % etf.
C10_Witness ==
    /\ portfolio.status = "returned"
    /\ Len(holdings) = 6
    /\ holdings[1].symbol = "AAPL"
    /\ portfolio.value.portfolio.total_value = 2896930
    /\ portfolio.value.portfolio.total_cost = 2677950
    /\ portfolio.value.portfolio.total_gain_loss = 218980
    /\ portfolio.value.portfolio.total_gain_loss_percent = 818
    /\ portfolio.value.allocation =
           << [k |-> "stock", v |-> 282], [k |-> "etf", v |-> 718] >>


-----------------------------------------------------------------------------
(* Properties of get_wallet_assets *)

\* 42 characters of which the first two are 0 and x
WellFormed(a) ==
    /\ Len(a) = 42
    /\ SubSeq(a, 1, 1) = "0"
    /\ SubSeq(a, 2, 2) = "x"

\* C11: a wallet lookup whose address is not exactly 42 characters long or
\* does not start with 0x is answered with 400 and calls none of the balance,
\* token and DeFi functions; these are called only once the address has
\* passed the validation.
C11_InvalidAddressRejected ==
    /\ ~WellFormed(address) =>
           /\ calls = <<>>
           /\ wallet # NotCalled => wallet.status = 400
           /\ wallet_pc \in {"validate", "done"}
    /\ calls # <<>> => WellFormed(address) /\ wallet_pc # "validate"
    /\ wallet_pc = "done" /\ WellFormed(address) => Len(calls) = 4

\* A 42-character address without the prefix has been rejected.
C11_Witness ==
    /\ address = Hex40 \o "0x"
    /\ wallet_pc = "done"
    /\ wallet.status = 400
    /\ calls = <<>>

\* The request came back with status '1' and a number
Succeeded(reply) ==
    /\ reply.kind = "json"
    /\ "status" \in DOMAIN reply.data
    /\ reply.data["status"] = "1"
    /\ "result" \in DOMAIN reply.data
    /\ reply.data["result"] \in {"1500", "007", "0"}

Wei(reply) ==
    CASE reply.data["result"] = "1500" -> 1500
      [] reply.data["result"] = "007" -> 7
      [] reply.data["result"] = "0" -> 0

ExpectedBalance(reply, chain, symbol) ==
    IF Succeeded(reply)
    THEN << [chain |-> chain, symbol |-> symbol, wei |-> Wei(reply)] >>
    ELSE <<>>

\* C12: for a valid address, whichever of the Ethereum and Polygon balance
\* requests succeed or fail, the lookup is answered with 200 and
\* native_balances holds exactly the balances of the requests that
\* succeeded, Ethereum before Polygon; a failed request's balance is left out.
C12_NativeBalancesOfSucceededFetches ==
    wallet_pc = "done" /\ WellFormed(address) =>
        /\ wallet.status = 200
        /\ LET native == wallet.body.native_balances
               expected == ExpectedBalance(eth_reply, "Ethereum", "ETH")
                           \o ExpectedBalance(polygon_reply, "Polygon", "MATIC")
           IN  /\ Len(native) = Len(expected)
               /\ \A i \in 1..Len(native) :
                      /\ native[i].chain = expected[i].chain
                      /\ native[i].symbol = expected[i].symbol
                      /\ native[i].balance.mantissa = expected[i].wei
                      /\ native[i].balance.exponent = -18

\* The Ethereum request failed and the Polygon one reported a balance of 0:
\* the snapshot holds the Polygon balance alone.
C12_Witness ==
    /\ wallet_pc = "done"
    /\ WellFormed(address)
    /\ eth_reply = RequestFailed
    /\ Succeeded(polygon_reply) /\ Wei(polygon_reply) = 0
    /\ wallet.status = 200
    /\ Len(wallet.body.native_balances) = 1
    /\ wallet.body.native_balances[1].chain = "Polygon"

-----------------------------------------------------------------------------
(* Properties of get_eth_tokens *)

\* What an event says about its token
SymbolOf(tx) == IF "tokenSymbol" \in DOMAIN tx THEN tx.tokenSymbol ELSE "UNKNOWN"

NameOf(tx) == IF "tokenName" \in DOMAIN tx THEN tx.tokenName ELSE "Unknown Token"

ContractOf(tx) == IF "contractAddress" \in DOMAIN tx THEN tx.contractAddress ELSE ""

NumericDecimals(tx) ==
    "tokenDecimal" \in DOMAIN tx => tx.tokenDecimal \in {"6", "18"}

DecimalsOf(tx) ==
    IF "tokenDecimal" \in DOMAIN tx /\ tx.tokenDecimal = "6" THEN 6 ELSE 18

\* The events of the reply, none when the reply is not a history
EventsOf(reply) ==
    IF reply.kind = "json" /\ "result" \in DOMAIN reply.data
       /\ "status" \in DOMAIN reply.data /\ reply.data["status"] = "1"
    THEN reply.data["result"]
    ELSE <<>>

\* Event k is the first one of the history with its symbol
FirstOfSymbol(events, k) ==
    \A j \in 1..(k - 1) : SymbolOf(events[j]) # SymbolOf(events[k])

\* C13: get_eth_tokens looks at the first 50 events only and returns at most
\* one token per symbol, with the name, contract and decimals of the first
\* scanned event of that symbol, in the order in which the symbols first
\* occur; an event after the 50th contributes nothing.  (When the decimals of
\* the first events of the scanned symbols are all numbers, every scanned
\* symbol is returned.)
C13_FirstFiftyFirstOccurrence ==
    eth_tokens # NotCalled =>
        LET events == EventsOf(transfers_reply)
            found == eth_tokens.value
            scanned == { k \in 1..Len(events) : k <= 50 }
            firsts == { k \in scanned : FirstOfSymbol(events, k) }
        IN  /\ eth_tokens.status = "returned"
            /\ \A i, j \in 1..Len(found) :
                   found[i].symbol = found[j].symbol => i = j
            /\ \A i \in 1..Len(found) :
                   \E k \in firsts :
                       /\ found[i].symbol = SymbolOf(events[k])
                       /\ found[i].name = NameOf(events[k])
                       /\ found[i].contract = ContractOf(events[k])
                       /\ found[i].decimals = DecimalsOf(events[k])
                       /\ Cardinality({ l \in firsts : l < k }) = i - 1
            /\ (\A k \in firsts : NumericDecimals(events[k]))
                   => Len(found) = Cardinality(firsts)

\* A history of more than 50 events whose 51st is the first of its symbol:
\* the tokens of the first 50 are returned, that symbol is not.
C13_Witness ==
    /\ eth_tokens # NotCalled
    /\ LET events == EventsOf(transfers_reply)
           found == eth_tokens.value
       IN  /\ Len(events) > 50
           /\ FirstOfSymbol(events, 51)
           /\ Len(found) >= 2
           /\ \A i \in 1..Len(found) : found[i].symbol # SymbolOf(events[51])

-----------------------------------------------------------------------------
(* Properties of get_source_credibility *)

TopTierNames ==
    {"reuters", "bloomberg", "wall street journal", "financial times",
     "associated press", "cnbc"}

SecondaryNames ==
    {"marketwatch", "seeking alpha", "yahoo finance", "investopedia", "barrons"}

CryptoNames ==
    {"coindesk", "the block", "decrypt", "bitcoin magazine", "cointelegraph"}

ContainsOneOf(names, text) == \E n \in names : StrIn(n, text)

\* C14: the credibility of a source name is 'high' when the lower-cased name
\* contains a top-tier name, otherwise 'medium' when it contains a secondary
\* name, otherwise 'crypto' when it contains a crypto name, otherwise
\* 'unknown'; a name that contains a top-tier and a crypto name is 'high'.
C14_TierPriority ==
    credibility # NotCalled =>
        LET text == Lower(source)
        IN  /\ credibility.status = "returned"
            /\ credibility.value =
                   CASE ContainsOneOf(TopTierNames, text) -> "high"
                     [] ~ContainsOneOf(TopTierNames, text)
                        /\ ContainsOneOf(SecondaryNames, text) -> "medium"
                     [] ~ContainsOneOf(TopTierNames, text)
                        /\ ~ContainsOneOf(SecondaryNames, text)
                        /\ ContainsOneOf(CryptoNames, text) -> "crypto"
                     [] OTHER -> "unknown"
            /\ ContainsOneOf(TopTierNames, text)
               /\ ContainsOneOf(CryptoNames, text)
                   => credibility.value = "high"

\* A name that contains a top-tier and a crypto name has been classified.
C14_Witness ==
    /\ source = "ReutersCoinDesk"
    /\ credibility = Returned("high")

-----------------------------------------------------------------------------
(* Properties of get_news *)

\* The limit the request asks for: 10 unless the parameter is a number
RequestedLimit ==
    IF "limit" \notin DOMAIN news_args THEN 10
    ELSE CASE news_args["limit"] = "-1" -> -1
           [] news_args["limit"] = "0" -> 0
           [] news_args["limit"] = "2" -> 2
           [] news_args["limit"] = "60" -> 60
           [] OTHER -> 10

CappedLimit == IF RequestedLimit < 50 THEN RequestedLimit ELSE 50

CredibleOnlyRequested ==
    /\ "credible_only" \in DOMAIN news_args
    /\ news_args["credible_only"] \in {"true", "True", "TRUE"}

Answered == news # NotCalled /\ news.status = 200

\* The articles get_news chooses from: the mock articles of the category, or
\* the first 2 * limit articles of the feed (all but the last -2 * limit for
\* a negative limit) with the tier of their source
Candidates ==
    IF ~finnhub_key
    THEN LET category == IF "category" \in DOMAIN news_args
                         THEN news_args["category"] ELSE "general"
         IN  { a \in { MockArticles[i] : i \in 1..Len(MockArticles) } :
                 category = "general" \/ a.category = category }
    ELSE LET feed == news_feed.data
             last == IF CappedLimit >= 0 THEN 2 * CappedLimit
                     ELSE Len(feed) + 2 * CappedLimit
         IN  { [id |-> i,
                credibility |->
                    IF "source" \in DOMAIN feed[i]
                    THEN IF feed[i].source \in {"Reuters", "Bloomberg"}
                         THEN "high" ELSE "unknown"
                    ELSE "unknown"] :
               i \in { k \in 1..Len(feed) : k <= last } }

Listed(a) ==
    \E i \in 1..Len(news.body.articles) : news.body.articles[i].id = a.id

Full == Len(news.body.articles) >= CappedLimit

\* With credible-only filtering no article of the response is 'unknown'.
C15_NoUnknownWhenFiltering ==
    Answered /\ CredibleOnlyRequested =>
        \A i \in 1..Len(news.body.articles) :
            news.body.articles[i].credibility # "unknown"

\* The filter drops no article of a known tier: one that is missing was cut
\* off by the limit.
C15_KnownTiersKept ==
    Answered /\ CredibleOnlyRequested =>
        \A a \in Candidates : a.credibility # "unknown" => Listed(a) \/ Full

\* Without the filter the articles of every tier are returned.
C15_AllTiersWithoutFilter ==
    Answered /\ ~CredibleOnlyRequested =>
        \A a \in Candidates : Listed(a) \/ Full

\* The number of articles is at most the requested limit capped at 50.
C15_WithinLimit ==
    Answered => Len(news.body.articles) <= CappedLimit

\* The same for the requests whose limit is not negative
C15_WithinNonNegativeLimit ==
    Answered /\ RequestedLimit >= 0 => Len(news.body.articles) <= CappedLimit

\* C15: with credible-only filtering no returned article has the credibility
\* 'unknown' and no article tagged 'high', 'medium' or 'crypto' is dropped by
\* the filter; without it the articles of all tiers are returned; in both
\* cases the number of returned articles does not exceed the requested limit
\* capped at 50.
C15_FilterAndLimit ==
    /\ C15_NoUnknownWhenFiltering
    /\ C15_KnownTiersKept
    /\ C15_AllTiersWithoutFilter
    /\ C15_WithinLimit

-----------------------------------------------------------------------------
(* Properties of get_system_prompt *)

\* The position of the first occurrence of `marker` in s at or after `from`,
\* 0 when there is none
IndexOf(marker, s, from) ==
    LET hits == { i \in from..(Len(s) - Len(marker) + 1) :
                    SubSeq(s, i, i + Len(marker) - 1) = marker }
    IN  IF hits = {} THEN 0
        ELSE CHOOSE i \in hits : \A j \in hits : i <= j

BlockchainLabel == "\n\nCurrent User Financial Context:\n- Blockchain Assets: "

BankingLabel == "\n- Banking Data: "

TradingLabel == "  \n- Trading Portfolio: "

\* The prompt read back: what follows the base prompt, cut at the labels.
\* `found` says whether the three labels are there in this order.
ReadBack(prompt) ==
    LET rest == SubSeq(prompt, Len(base_prompt) + 1, Len(prompt))
        banking_at == IndexOf(BankingLabel, rest, Len(BlockchainLabel) + 1)
        trading_at == IndexOf(TradingLabel, rest, banking_at + Len(BankingLabel))
    IN  IF /\ SubSeq(prompt, 1, Len(base_prompt)) = base_prompt
           /\ IndexOf(BlockchainLabel, rest, 1) = 1
           /\ banking_at > 0
           /\ trading_at > 0
           /\ SubSeq(rest, Len(rest), Len(rest)) = "\n"
        THEN [found |-> TRUE,
              blockchain |-> SubSeq(rest, Len(BlockchainLabel) + 1,
                                    banking_at - 1),
              banking |-> SubSeq(rest, banking_at + Len(BankingLabel),
                                 trading_at - 1),
              trading |-> SubSeq(rest, trading_at + Len(TradingLabel),
                                 Len(rest) - 1)]
        ELSE [found |-> FALSE]

EntryKeys == {"blockchain", "banking", "trading"}

\* The entry of the context, the empty dict when there is none
EntryOrEmpty(context, key) ==
    IF context # NoneObject /\ key \in DOMAIN context THEN context[key]
    ELSE JObj(<<>>)

\* The prompt shows every entry as its JSON text, a missing one as {}, and
\* no other value of the model has the same text.
ShowsEveryEntry(context, prompt) ==
    LET shown == ReadBack(prompt)
    IN  /\ shown.found
        /\ \A key \in EntryKeys :
               /\ shown[key] = Dumps(EntryOrEmpty(context, key), 0)
               /\ \A v \in EntryValues :
                      Dumps(v, 0) = shown[key] => v = EntryOrEmpty(context, key)
               /\ key \notin DOMAIN context => shown[key] = "{}"

\* C16 as stated: whatever the context, the prompt shows each of the three
\* entries, a missing one as an empty structure and a present one as its
\* unmodified JSON text.
C16_EveryContextRendered ==
    system_prompt # NotCalled =>
        /\ system_prompt.status = "returned"
        /\ ShowsEveryEntry(financial_context, system_prompt.value)

\* C16: a context that is a non-empty dict is shown with each of the three
\* entries, a missing one as {} and a present one as its unmodified JSON
\* text, from which the entry can be read back; for no context or an empty
\* dict the prompt is the base prompt alone, without the context section.
C16_NonEmptyContextRendered ==
    system_prompt # NotCalled =>
        /\ system_prompt.status = "returned"
        /\ IF financial_context = NoneObject \/ DOMAIN financial_context = {}
           THEN system_prompt.value = base_prompt
           ELSE ShowsEveryEntry(financial_context, system_prompt.value)

\* A context with a nested banking entry and no trading entry has been
\* rendered.
C16_Witness ==
    /\ system_prompt # NotCalled
    /\ financial_context # NoneObject
    /\ DOMAIN financial_context = {"blockchain", "banking"}
    /\ financial_context["banking"] =
           JObj(<< Item("data", JStr("say \"hi\"")) >>)
    /\ ReadBack(system_prompt.value).found
    /\ ReadBack(system_prompt.value).trading = "{}"
    /\ ReadBack(system_prompt.value).banking
           = "{\n  \"data\": \"say \\\"hi\\\"\"\n}"

-----------------------------------------------------------------------------
(* Properties of chat and clear_conversation *)

\* The request has built the messages of its completion request
HasBuilt(r) == chats[r].messages # <<>>

\* C17: in every chat request the history supplied to the completion is the
\* most recent min(10, length) entries of the conversation's stored history,
\* in stored order and ending with the request's own user message; older
\* entries are not supplied.
C17_LastTenEndingWithOwnMessage ==
    \A r \in DOMAIN chats :
        HasBuilt(r) =>
            LET stored == chats[r].stored_at_call
                supplied == Tail(chats[r].messages)
                n == IF Len(stored) < 10 THEN Len(stored) ELSE 10
            IN  /\ Head(chats[r].messages).role = "system"
                /\ Len(supplied) = n
                /\ \A i \in 1..n : supplied[i] = stored[Len(stored) - n + i]
                /\ n > 0
                /\ supplied[n] = Message("user", chats[r].message)

\* Building the messages leaves the stored history as it is.
StoredHistoryNotTruncated ==
    [][\A r \in DOMAIN chats : ChatBuildMessages(r) =>
                                conversations' = conversations]_vars

\* A request has been supplied 10 of the 11 stored entries.
C17_TruncatedSupply ==
    \E r \in DOMAIN chats :
        /\ HasBuilt(r)
        /\ Len(chats[r].stored_at_call) = 11
        /\ Len(chats[r].messages) = 11

Succeeded200(r) ==
    chats[r].response # NotCalled /\ chats[r].response.status = 200

\* The request reached the completion request, which raised
AdvisoryFailed(r) ==
    /\ chats[r].pc = "done"
    /\ HasBuilt(r)
    /\ chats[r].assistant_message = PyNone

\* What a request has added to its conversation so far: its pair when it
\* has succeeded, its user message while it is between the two appends
Contribution(r) ==
    IF Succeeded200(r)
    THEN << Message("user", chats[r].message),
            Message("assistant", chats[r].assistant_message) >>
    ELSE IF BetweenAppends(r) THEN << Message("user", chats[r].message) >>
    ELSE << >>

\* The contributions of the requests on `id` among `order`, concatenated
RECURSIVE Contributions(_, _)
Contributions(order, id) ==
    IF order = <<>> THEN <<>>
    ELSE (IF chats[Head(order)].conversation_id = id
          THEN Contribution(Head(order)) ELSE <<>>)
         \o Contributions(Tail(order), id)

ConversationIds == {"default", "trip"}

\* C18: when the chat requests on one conversation are serialized and every
\* completion succeeds, the conversation's history is the history it had
\* before, followed by the requests' (user message, assistant reply) pairs in
\* the order of the requests, each user message directly followed by its own
\* reply; a request on one conversation changes no other conversation.
C18_SerializedPairsInOrder ==
    \A id \in ConversationIds :
        (\A r \in DOMAIN chats :
             chats[r].conversation_id = id => ~AdvisoryFailed(r))
        => LET before == IF id \in DOMAIN stored_before
                         THEN stored_before[id] ELSE <<>>
               expected == before \o Contributions(arrivals, id)
           IN  IF id \in DOMAIN conversations
               THEN conversations[id] = expected
               ELSE expected = <<>>

\* Two requests on a conversation that did not exist have succeeded, in the
\* meantime a request on the other conversation has not.
C18_Witness ==
    /\ Len(arrivals) = 2
    /\ \A r \in DOMAIN chats :
           Succeeded200(r) /\ chats[r].conversation_id = "trip"
    /\ "trip" \notin DOMAIN stored_before
    /\ Len(conversations["trip"]) = 4
    /\ chats[1].message # chats[2].message
    /\ chats[1].assistant_message # chats[2].assistant_message

Holds(history, message) == \E i \in 1..Len(history) : history[i] = message

\* C19: two chat requests on one conversation that did not exist, both
\* answered with 200 (and no clear_conversation requested): the history
\* holds both user messages and both replies.
C19_NoMessageLost ==
    \A r1, r2 \in DOMAIN chats :
        /\ r1 # r2
        /\ Succeeded200(r1) /\ Succeeded200(r2)
        /\ chats[r1].conversation_id = chats[r2].conversation_id
        /\ chats[r1].conversation_id \notin DOMAIN stored_before
        /\ \A c \in DOMAIN clears : clears[c].pc = "idle"
        => LET id == chats[r1].conversation_id
           IN  /\ id \in DOMAIN conversations
               /\ Len(conversations[id]) >= 4
               /\ \A r \in {r1, r2} :
                      /\ Holds(conversations[id],
                               Message("user", chats[r].message))
                      /\ Holds(conversations[id],
                               Message("assistant", chats[r].assistant_message))

\* A clear_conversation that is over has been answered with 200.
ClearSucceeds ==
    \A c \in DOMAIN clears : clears[c].pc = "done" => clears[c].response.status = 200

\* clear_conversation changes no conversation but the named one, and nothing
\* when that one is not there.
ClearRemovesOnlyNamed ==
    [][\A c \in DOMAIN clears :
           (\E body \in ClearBodies : ClearCheck(c, body)) \/ ClearDelete(c) =>
               /\ \A id \in DOMAIN conversations' :
                      id \in DOMAIN conversations
                      /\ conversations'[id] = conversations[id]
               /\ DOMAIN conversations \ DOMAIN conversations'
                      \subseteq {clears'[c].conversation_id}]_vars

\* A chat request between whose appends the conversation was cleared ends
\* with an error and without its reply stored.
ClearedChatFails ==
    \A r \in DOMAIN chats :
        chats[r].cleared /\ chats[r].pc = "done" =>
            /\ chats[r].response.status = 500
            /\ chats[r].conversation_id \in DOMAIN conversations =>
                   ~Holds(conversations[chats[r].conversation_id],
                          Message("assistant", chats[r].assistant_message))

\* C20: when clear_conversation runs between a chat request's append of the
\* user message and its append of the reply, on the same conversation, the
\* chat request is answered with an error and its reply is not stored;
\* clear_conversation itself always succeeds.
C20_ClearBetweenAppends ==
    /\ ClearedChatFails
    /\ ClearSucceeds

\* The entries are user, assistant, user, assistant, ...
Alternates(history) ==
    /\ Len(history) % 2 = 0
    /\ \A i \in 1..Len(history) :
           history[i].role = IF i % 2 = 1 THEN "user" ELSE "assistant"

\* The pairs of the requests on `id` among `order` that were answered with
\* 200; the other requests count for nothing
RECURSIVE SucceededPairs(_, _)
SucceededPairs(order, id) ==
    IF order = <<>> THEN <<>>
    ELSE (IF chats[Head(order)].conversation_id = id /\ Succeeded200(Head(order))
          THEN Contribution(Head(order)) ELSE <<>>)
         \o SucceededPairs(Tail(order), id)

\* No request on the conversation is being handled
Quiet(id) ==
    \A r \in DOMAIN chats : InProgress(r) => chats[r].conversation_id # id

\* The request was turned away before the try block (400, or 500 for the
\* missing key)
Rejected(r) ==
    /\ chats[r].pc = "done"
    /\ chats[r].message \in {PyNone, ""} \/ ~openai_key

\* As long as every request was rejected, the conversations are those of the
\* start.
RejectedChangesNothing ==
    (\A r \in DOMAIN chats : chats[r].pc = "idle" \/ Rejected(r))
        => conversations = stored_before

\* C21: a chat request that ends in an error leaves the conversation as it
\* was before the request, so a conversation no request is working on holds
\* its earlier history and the pairs of the requests that succeeded, nothing
\* of a request that failed, and alternates user, assistant.
C21_ErrorLeavesNoTrace ==
    \A id \in ConversationIds :
        Quiet(id) =>
            LET before == IF id \in DOMAIN stored_before
                          THEN stored_before[id] ELSE <<>>
                expected == before \o SucceededPairs(arrivals, id)
            IN  IF id \in DOMAIN conversations
                THEN /\ conversations[id] = expected
                     /\ Alternates(conversations[id])
                     /\ id \in DOMAIN stored_before \/ expected # <<>>
                ELSE expected = <<>>
====
